---- MODULE Spec2Model ----
(***************************************************************************)
(* State-machine model of the Cura OctoPrint plugin.                       *)
(*                                                                         *)
(*   - OctoPrintOutputDevice (the DeviceClient): connection life cycle,    *)
(*     polling, reconciliation of asynchronous replies, upload protocol.   *)
(*   - OctoPrintOutputDevicePlugin (the InstanceRegistry): the registry of *)
(*     instances and the persisted manual-instance store.                  *)
(*                                                                         *)
(* One handler of the program is one action.  The content of a reply       *)
(* (transport error, HTTP status, body) is chosen when the reply is        *)
(* handled.  Optional JSON keys are sequences of length 0 or 1.            *)
(***************************************************************************)
EXTENDS Integers, Sequences, FiniteSets, Bags, TLC

(***************************************************************************)
(* Bounds of the model.                                                    *)
(***************************************************************************)
\* copies of one request (operation, URL) that are tracked as outstanding
MaxOutstanding == 1
\* close() calls made in a row that are told apart
MaxCloseCalls == 2
\* upload POSTs that may be in flight together
MaxUploads == 2
\* file-information end points that may be polled together
MaxFileEndPoints == 2
\* requests of the machine action that may be in flight together
MaxActionReplies == 2
\* tool keys (tool0, tool1, ...) a payload may hold
MaxTools == 3
\* print instructions counted for one upload
MaxPrintInstructions == 2
\* G-code commands passed to sendCommand in one behaviour
MaxCommands == 5

(***************************************************************************)
(* Program constants.                                                      *)
(***************************************************************************)
UpdateFastInterval == 2000
UpdateSlowInterval == 10000
\* restarts of a dead discovery in a row before the plugin gives up
MaxZeroconfRestarts == 5
\* value shown for a temperature the server reports as null
UnknownTemperature == -1

\* encoding of a JSON null in a numeric field of a payload
JsonNull == -1000

VARIABLES
    \* ---- OctoPrintOutputDevice: connection and polling
    connectionState,              \* _connection_state
    connectionStateBeforeTimeout, \* _connection_state_before_timeout
    updateTimerActive,            \* _update_timer.isActive()
    updateInterval,               \* _update_timer.interval()
    pollingEndPoints,             \* _polling_end_points (a list)
    requests,                     \* bag of requests whose reply is still to be handled
    followedOps,                  \* operations whose replies the server model delivers
    apiKey,                       \* _api_key: "" when no key is set
    octoprintVersion,             \* _octoprint_version: "" when unknown
    octoprintUserName,            \* _octoprint_user_name: "" when unknown
    \* ---- view models
    printers,                     \* _printers: <<>> or <<PrinterOutputModel>>
    numberOfExtruders,            \* _number_of_extruders
    numberOfExtrudersSet,         \* _number_of_extruders_set
    \* ---- capabilities learned from api/settings
    storeOnSdSupported,           \* _store_on_sd_supported
    ufpTransferSupported,         \* _ufp_transfer_supported
    gcodeAnalysisRequiresWait,    \* _gcode_analysis_requires_wait
    gcodeAnalysisSupported,       \* _gcode_analysis_supported
    ufpPluginOld,                 \* _ufp_plugin_version < Version("0.1.7")
    availablePlugs,               \* _power_plugins_manager._available_plugs (plug ids)
    storeOnSdSetting,             \* metadata entry octoprint_store_sd of the machine
    \* ---- upload / print protocol
    uploadOptions,                \* _upload_options: autoPrint, autoSelect, fileName
    optionsDialogOpen,            \* the upload options dialog is shown
    forcedQueue,                  \* _forced_queue
    selectAndPrintHandledInUpload,\* _select_and_print_handled_in_upload
    waitingForAnalysis,           \* _waiting_for_analysis
    waitingForPrinter,            \* _waiting_for_printer
    uploads,                      \* upload POSTs in flight: slot -> destination, file, print
    postGcodeReply,               \* _post_gcode_reply: slot of the reply, 0 for None
    progressMessage,              \* _progress_message
    errorMessage,                 \* _error_message
    waitingMessage,               \* _waiting_message
    \* ---- what the last handler call did
    sent,                         \* requests issued by the call, in order
    emitted,                      \* connectionStateChanged emissions of the call
    raised,                       \* the call ended with an exception it did not catch
    closeCalls,                   \* close() calls made in a row up to and with the call
    \* ---- histories used to state the timing claims
    stateBeforeFirstTimeout,      \* state held before the first of a run of timeouts
    \* ---- OctoPrintOutputDevicePlugin
    instances,                    \* _instances: key -> device, reduced to its connection
    octoprintId,                  \* "octoprint_id" of the global container stack
    manualInstances,              \* _manual_instances: a dict, in insertion order
    manualInstancesPreference,    \* the preference "octoprint/manual_instances"
    lastManualAdd,                \* the last addManualInstance, if nothing but its
                                  \* removeManualInstance followed: name, the
                                  \* preference before it, whether it was removed
    dropped,                      \* devices the last call took out of _instances,
                                  \* as the call left them
    serviceRemoved,               \* service of the discovery remove event that the
                                  \* last call handled, "None" for other calls
    \* ---- OctoPrintOutputDevicePlugin: discovery
    useZeroconf,                  \* the preference "octoprint/use_zeroconf"
    zeroconf,                     \* _zeroconf: "None" or "open"
    browser,                      \* _browser: "None", "alive" or "dead"
    keepAliveTimerActive,         \* _keep_alive_timer.isActive()
    consecutiveZeroconfRestarts,  \* _consecutive_zeroconf_restarts
    openBackends,                 \* Zeroconf objects that were created and not closed
    aliveBrowsers,                \* ServiceBrowser threads that are alive
    \* ---- DiscoverOctoPrintAction
    actionReplies,                \* requests of _network_manager in flight: id -> request
    appkeyRequest,                \* _appkey_request: "None", or where its URL points
    appkeyHost,                   \* the instance whose server the URL of _appkey_request names
    appkeyReply,                  \* _appkey_reply: id of the reply if it runs, else 0
    appkeyInstanceId,             \* _appkey_instance_id
    appkeyPollTimerActive,        \* _appkey_poll_timer.isActive()
    settingsReply,                \* _settings_reply: id of the reply if it runs, else 0
    settingsReplyTimeout,         \* the timer of _settings_reply_timeout is active
    settingsInstance,             \* _settings_instance: its id, or "None"
    instanceSupportsAppkeys,      \* _instance_supports_appkeys
    instanceResponded,            \* _instance_responded
    instanceInError,              \* _instance_in_error
    instanceApiKeyAccepted,       \* _instance_api_key_accepted
    keysCache,                    \* _keys_cache: instance id -> API key
    instanceApiKeys,              \* API keys the action has set on instances
    actionCall,                   \* what the last call of the action did: requests
                                  \* issued, requests aborted, signals, web pages
    \* ---- the server
    statusPayload,                \* body of the reply to GET api/printer that the
                                  \* server has sent and the device has not handled
    printInstructions,            \* print instructions the server has received for
                                  \* the upload that started last
    \* ---- G-code commands
    queuedGcodeCommands,          \* _queued_gcode_commands
    laterCalls,                   \* calls of _sendQueuedGcode that callLater holds
    submitted,                    \* the commands passed to sendCommand, in order
    batches                       \* the batches sent to printer/command, in order

accountVars == <<apiKey, octoprintVersion, octoprintUserName>>
connVars == <<connectionState, connectionStateBeforeTimeout, updateTimerActive,
              updateInterval, pollingEndPoints, requests, followedOps, accountVars>>
viewVars == <<printers, numberOfExtruders, numberOfExtrudersSet>>
capVars  == <<storeOnSdSupported, ufpTransferSupported, gcodeAnalysisRequiresWait,
              gcodeAnalysisSupported, ufpPluginOld, availablePlugs, storeOnSdSetting>>
flowVars == <<uploadOptions, optionsDialogOpen, forcedQueue,
              selectAndPrintHandledInUpload, waitingForAnalysis, waitingForPrinter,
              uploads, postGcodeReply>>
msgVars  == <<progressMessage, errorMessage, waitingMessage>>
callVars == <<sent, emitted, raised, closeCalls>>
histVars == <<stateBeforeFirstTimeout>>

deviceVars == <<connVars, viewVars, capVars, flowVars, msgVars, callVars, histVars>>

discoveryVars == <<useZeroconf, zeroconf, browser, keepAliveTimerActive,
                   consecutiveZeroconfRestarts, openBackends, aliveBrowsers>>

appkeyVars == <<appkeyRequest, appkeyHost, appkeyReply, appkeyInstanceId, appkeyPollTimerActive,
                instanceSupportsAppkeys>>
settingsVars == <<settingsReply, settingsReplyTimeout, settingsInstance,
                  instanceResponded, instanceInError, instanceApiKeyAccepted,
                  instanceApiKeys>>
actionVars == <<actionReplies, appkeyVars, settingsVars, keysCache, actionCall>>

serverVars == <<statusPayload, printInstructions>>

gcodeVars == <<queuedGcodeCommands, laterCalls, submitted, batches>>

registryVars == <<instances, octoprintId, manualInstances, manualInstancesPreference,
                  lastManualAdd, dropped, serviceRemoved, discoveryVars>>

pluginVars == <<registryVars, actionVars, serverVars, gcodeVars>>

vars == <<deviceVars, pluginVars>>

(***************************************************************************)
(* Connection states (UnifiedConnectionState, an IntEnum: Closed is 0 and  *)
(* so the only state that is false in a truth test).                       *)
(***************************************************************************)
ConnectionStates == {"Closed", "Connecting", "Connected", "Busy", "Error"}

Truthy(state) == state \notin {"None", "Closed"}

\* PrinterOutputDevice.isConnected(): neither Closed nor Error
IsConnected(state) == state \notin {"Closed", "Error"}

\* setConnectionState() that emits without comparing the states
EmitsAlways(old, new) == 1

\* setConnectionState emits connectionStateChanged only when the state changes
Emissions(old, new) == IF old = new THEN 0 ELSE 1

(***************************************************************************)
(* Requests.  An end point is the list of its path segments; the URL of a  *)
(* request is api/ followed by the end point.                              *)
(***************************************************************************)
Request(op, endPoint, body) == [op |-> op, url |-> endPoint, body |-> body]

Get(endPoint) == Request("GET", endPoint, {})

IsFilesEndPoint(endPoint) == Len(endPoint) > 1 /\ endPoint[1] = "files"

\* the filter inverted: only the file-information end points are kept
OnlyFilesEndPoints(endPoints) == SelectSeq(endPoints, IsFilesEndPoint)

\* [point for point in _polling_end_points if not point.startswith("files/")]
WithoutFilesEndPoints(endPoints) == SelectSeq(endPoints, LAMBDA p : ~IsFilesEndPoint(p))

\* outstanding requests of a bag that are commands (POST)
RECURSIVE CommandsIn(_)
CommandsIn(bag) ==
    IF BagToSet(bag) = {} THEN 0
    ELSE LET r == CHOOSE x \in BagToSet(bag) : TRUE
             rest == [x \in BagToSet(bag) \ {r} |-> bag[x]]
         IN  (IF r.op = "POST" THEN bag[r] ELSE 0) + CommandsIn(rest)

\* a request is followed until its reply when the replies to its operation are
\* delivered, and fewer than MaxOutstanding copies of it, and fewer than
\* MaxOutstanding commands, are outstanding
Followed(bag, r) ==
    /\ r.op \in followedOps
    /\ CopiesIn(r, bag) < MaxOutstanding
    /\ r.op = "POST" => CommandsIn(bag) < MaxOutstanding

\* the bag of outstanding requests after issuing the requests of a list
RECURSIVE Issue(_, _)
Issue(bag, reqs) ==
    IF reqs = <<>> THEN bag
    ELSE LET r == Head(reqs)
             next == IF Followed(bag, r) THEN bag (+) SetToBag({r}) ELSE bag
         IN  Issue(next, Tail(reqs))

\* _update(): one GET per polled end point
UpdateRequests(endPoints) == [i \in 1..Len(endPoints) |-> Get(endPoints[i])]

(***************************************************************************)
(* View models (PrinterOutputModel, ExtruderOutputModel,                   *)
(* PrintJobOutputModel as the device creates them).                        *)
(***************************************************************************)
NewExtruder == [hotendTemperature |-> 0, targetHotendTemperature |-> 0]

NewPrintJob == [state |-> "", name |-> "", timeElapsed |-> 0, timeTotal |-> 0]

\* _createPrinterList(): a fresh printer model with the current extruder count
NewPrinter(extruders) ==
    [state |-> "unknown",
     extruders |-> [i \in 1..extruders |-> NewExtruder],
     bedTemperature |-> -1,
     targetBedTemperature |-> 0,
     activePrintJob |-> <<>>]

\* JSON null is shown as the "unknown" temperature
Temperature(value) == IF value = JsonNull THEN UnknownTemperature ELSE value

\* number of tool keys, whatever their numbers
CountsAllTools(tools, n) == Cardinality(tools)

\* number of sequentially numbered tool keys: the first index that is missing
RECURSIVE CountTools(_, _)
CountTools(tools, n) == IF n \in tools THEN CountTools(tools, n + 1) ELSE n

\* printer state from state.flags, with printing before paused
PrintingBeforePaused(flags) ==
    IF "error" \in flags \/ "closedOrError" \in flags THEN "error"
    ELSE IF "printing" \in flags THEN "printing"
    ELSE IF "paused" \in flags \/ "pausing" \in flags THEN "paused"
    ELSE IF "cancelling" \in flags THEN "aborted"
    ELSE IF "ready" \in flags \/ "operational" \in flags THEN "idle"
    ELSE "offline"

\* printer state from state.flags, by the fixed priority order
PrinterStateFromFlags(flags) ==
    IF "error" \in flags \/ "closedOrError" \in flags THEN "error"
    ELSE IF "paused" \in flags \/ "pausing" \in flags THEN "paused"
    ELSE IF "printing" \in flags THEN "printing"
    ELSE IF "cancelling" \in flags THEN "aborted"
    ELSE IF "ready" \in flags \/ "operational" \in flags THEN "idle"
    ELSE "offline"

\* str.startswith for the state strings of api/job
StartsWith(text, prefix) ==
    \/ text = prefix
    \/ prefix = "Error" /\ text = "Error: connection lost"
    \/ prefix = "Printing" /\ text = "Printing from SD"
    \/ prefix = "Starting" /\ text = "Starting print from SD"
    \/ prefix = "Offline" /\ text = "Offline after error"

\* a state value of api/job that is not a string is written "#number"
IsString(state) == state # "#number"

\* print job state from the state string of api/job
JobStateFromString(state) ==
    IF ~IsString(state) THEN "offline"
    ELSE IF StartsWith(state, "Error") THEN "error"
    ELSE IF state = "Pausing" THEN "pausing"
    ELSE IF state = "Paused" THEN "paused"
    ELSE IF StartsWith(state, "Printing") THEN "printing"
    ELSE IF state = "Cancelling" THEN "abort"
    ELSE IF state = "Operational" THEN "ready"
    ELSE IF StartsWith(state, "Starting") \/ state = "Connecting"
            \/ state = "Sending file to SD" THEN "pre_print"
    ELSE "offline"

\* a value that is not 0, None or ""
NonZero(value) == value # 0 /\ value # JsonNull

\* total print time from the progress object of api/job (print time is non-zero)
TimeTotalFromProgress(progress) ==
    IF NonZero(progress.printTimeLeft)
    THEN progress.printTime + progress.printTimeLeft
    ELSE IF NonZero(progress.completion)
    THEN (progress.printTime * 100) \div progress.completion
    ELSE 0

\* _setOffline(printer): the printer, and its job if any, go offline
SetOffline(printer) ==
    IF printer.state # "offline"
    THEN [printer EXCEPT
            !.state = "offline",
            !.activePrintJob =
                IF printer.activePrintJob = <<>> THEN <<>>
                ELSE <<[printer.activePrintJob[1] EXCEPT !.state = "offline"]>>]
    ELSE printer

(***************************************************************************)
(* Replies.  A reply is a transport outcome, an HTTP status (0: none) and  *)
(* a body.  Qt reports an error for every status of 400 and above.         *)
(***************************************************************************)
ErrorOfStatus(status) == IF status >= 200 /\ status < 400 THEN "NoError" ELSE "OtherError"

Reply(status, body) == [error |-> ErrorOfStatus(status), status |-> status, body |-> body]

NoBody == [valid |-> FALSE]

\* no reply to GET api/printer was sent yet
NoPayload == [body |-> NoBody, handled |-> TRUE]

\* the request timed out
TimeoutReply == [error |-> "TimeoutError", status |-> 0, body |-> NoBody]

\* the request failed in the transport (refused, unreachable): no status
FailedReply == [error |-> "OtherError", status |-> 0, body |-> NoBody]

TransportReplies == {TimeoutReply, FailedReply}

\* json.loads, with {} for a body that is not valid JSON; the payload of
\* another end point holds neither "temperature" nor "state"
PrinterJson(body) ==
    IF body.valid /\ {"temperature", "state"} \subseteq DOMAIN body THEN body
    ELSE [valid |-> FALSE, temperature |-> <<>>, state |-> <<>>]

JobJson(body) ==
    IF body.valid THEN body
    ELSE [valid |-> FALSE, state |-> <<>>, progress |-> <<>>, name |-> <<>>]

SettingsJson(body) ==
    IF body.valid THEN body
    ELSE [valid |-> FALSE, sdSupport |-> <<>>, runAt |-> <<>>, plugins |-> <<>>]

VersionJson(body) == IF body.valid THEN body ELSE [valid |-> FALSE, server |-> <<>>]

LoginJson(body) == IF body.valid THEN body ELSE [valid |-> FALSE, name |-> <<>>]

FileJson(body) == IF body.valid THEN body ELSE [valid |-> FALSE, analysisProgress |-> FALSE]

(***************************************************************************)
(* Dispatch of a reply on its request URL, by substring tests in the order *)
(* of the handler.                                                         *)
(***************************************************************************)
\* the text of a path segment starts with a word
SegmentStartsWith(segment, word) ==
    \/ segment = word
    \/ word = "printer"
       /\ segment \in {"printerprofiles", "printer.gcode", "printer.ufp", "printer.ufp.gcode"}

\* api/<word> occurs in the URL api/<end point>
UrlContainsApi(endPoint, word) ==
    LET url == <<"api">> \o endPoint
    IN  \E i \in 1..(Len(url) - 1) : url[i] = "api" /\ SegmentStartsWith(url[i + 1], word)

\* api/files/ occurs in the URL
UrlContainsApiFiles(endPoint) ==
    LET url == <<"api">> \o endPoint
    IN  \E i \in 1..(Len(url) - 2) : url[i] = "api" /\ url[i + 1] = "files"

\* api/printer/command occurs in the URL
UrlContainsPrinterCommand(endPoint) ==
    LET url == <<"api">> \o endPoint
    IN  \E i \in 1..(Len(url) - 2) :
            url[i] = "api" /\ url[i + 1] = "printer" /\ url[i + 2] = "command"

Dispatch(req) ==
    IF req.op = "GET"
    THEN IF UrlContainsApi(req.url, "printerprofiles") THEN "printerprofiles"
         ELSE IF UrlContainsApi(req.url, "printer") THEN "printer"
         ELSE IF UrlContainsApi(req.url, "job") THEN "job"
         ELSE IF UrlContainsApi(req.url, "settings") THEN "settings"
         ELSE IF UrlContainsApi(req.url, "version") THEN "version"
         ELSE IF UrlContainsApiFiles(req.url) THEN "files"
         ELSE "none"
    ELSE IF UrlContainsApi(req.url, "files") THEN "post files"
         ELSE IF UrlContainsApi(req.url, "job") THEN "post job"
         ELSE IF UrlContainsPrinterCommand(req.url) THEN "post command"
         ELSE IF UrlContainsApi(req.url, "login") THEN "post login"
         ELSE "none"

(***************************************************************************)
(* Upload options and file names.                                          *)
(***************************************************************************)
\* job name: the stripped file name, or untitled_print when that is empty,
\* after the path of the upload options ("api/printer" is the file printer
\* in the folder api)
JobName(fileName) == IF fileName = "" THEN "untitled_print" ELSE fileName

\* the path of the job name, and "%s.%s" % (name, extension): where the
\* server stores the upload
WithExtension(name, extension) ==
    CASE name = "a" /\ extension = "gcode" -> "a.gcode"
      [] name = "a" /\ extension = "ufp" -> "a.ufp"
      [] name = "untitled_print" /\ extension = "gcode" -> "untitled_print.gcode"
      [] name = "untitled_print" /\ extension = "ufp" -> "untitled_print.ufp"
      [] name = "api/printer" /\ extension = "gcode" -> "api/printer.gcode"
      [] name = "api/printer" /\ extension = "ufp" -> "api/printer.ufp"

EndsWithUfp(file) == file \in {"a.ufp", "untitled_print.ufp", "api/printer.ufp"}

\* name of the G-code the server extracts from an uploaded .ufp file
ExtractedGcode(file, pluginOld) ==
    CASE file = "a.ufp" -> IF pluginOld THEN "a.ufp.gcode" ELSE "a.gcode"
      [] file = "untitled_print.ufp" ->
            IF pluginOld THEN "untitled_print.ufp.gcode" ELSE "untitled_print.gcode"
      [] file = "api/printer.ufp" ->
            IF pluginOld THEN "api/printer.ufp.gcode" ELSE "api/printer.gcode"

\* the segments of the path of a stored file
Segments(file) ==
    CASE file = "api/printer.gcode" -> <<"api", "printer.gcode">>
      [] file = "api/printer.ufp" -> <<"api", "printer.ufp">>
      [] file = "api/printer.ufp.gcode" -> <<"api", "printer.ufp.gcode">>
      [] OTHER -> <<file>>

StoreOnSd == storeOnSdSupported /\ storeOnSdSetting

TransferAsUfp == ufpTransferSupported /\ ~StoreOnSd

WaitForAnalysis == gcodeAnalysisRequiresWait /\ gcodeAnalysisSupported /\ ~StoreOnSd

\* select and print are requested in the upload unless the analysis is awaited
HandledUnlessWaiting == StoreOnSd \/ ~WaitForAnalysis

\* select and print are requested in the upload itself
HandledInUpload == StoreOnSd \/ (~WaitForAnalysis /\ ~TransferAsUfp)

\* form fields of the multipart upload besides path and file
UploadFields(options, forced) ==
    IF HandledInUpload /\ ~forced
    THEN (IF options.autoSelect \/ options.autoPrint THEN {"select"} ELSE {})
         \cup (IF options.autoPrint THEN {"print"} ELSE {})
    ELSE {}

\* the multipart POST of _sendPrintJob
UploadRequest(options, forced, preSliced) ==
    [dest |-> IF StoreOnSd THEN "sdcard" ELSE "local",
     file |-> WithExtension(JobName(options.fileName),
                            IF ~TransferAsUfp \/ preSliced THEN "gcode" ELSE "ufp"),
     fields |-> UploadFields(options, forced)]

\* _selectAndPrint(end_point): the select command, with print when auto-printing
SelectAndPrint(endPoint, options, forced) ==
    Request("POST", endPoint,
            IF options.autoPrint /\ ~forced THEN {"select", "print"} ELSE {"select"})

UploadSlots == 1..MaxUploads

FreeSlots == UploadSlots \ DOMAIN uploads

\* uploads with one more upload in a free slot
WithUpload(slot, upload) == [s \in DOMAIN uploads \cup {slot} |->
                                IF s = slot THEN upload ELSE uploads[s]]

WithoutUpload(slot) == [s \in DOMAIN uploads \ {slot} |-> uploads[s]]

(***************************************************************************)
(* Initial state: a device as its constructor leaves it.                   *)
(***************************************************************************)
\* the device after __init__; version is the one of the zeroconf properties
DeviceCreated(version) ==
    /\ statusPayload = NoPayload
    /\ printInstructions = 0
    /\ queuedGcodeCommands = <<>>
    /\ laterCalls = 0
    /\ submitted = <<>>
    /\ batches = <<>>
    /\ apiKey = ""
    /\ octoprintVersion = version
    /\ octoprintUserName = ""
    /\ connectionState = "Closed"
    /\ connectionStateBeforeTimeout = "None"
    /\ updateTimerActive = FALSE
    /\ updateInterval = UpdateFastInterval
    /\ pollingEndPoints = << <<"printer">>, <<"job">> >>
    /\ requests = EmptyBag
    /\ printers = <<>>
    /\ numberOfExtruders = 1
    /\ numberOfExtrudersSet = FALSE
    /\ storeOnSdSupported = FALSE
    /\ ufpTransferSupported = FALSE
    /\ gcodeAnalysisRequiresWait = FALSE
    /\ gcodeAnalysisSupported = FALSE
    /\ ufpPluginOld = TRUE
    /\ availablePlugs = <<>>
    /\ storeOnSdSetting = FALSE
    /\ uploadOptions = [autoPrint |-> FALSE, autoSelect |-> FALSE, fileName |-> ""]
    /\ optionsDialogOpen = FALSE
    /\ forcedQueue = FALSE
    /\ selectAndPrintHandledInUpload = FALSE
    /\ waitingForAnalysis = FALSE
    /\ waitingForPrinter = FALSE
    /\ uploads = <<>>
    /\ postGcodeReply = 0
    /\ progressMessage = "None"
    /\ errorMessage = "None"
    /\ waitingMessage = "None"
    /\ sent = <<>>
    /\ emitted = 0
    /\ raised = FALSE
    /\ closeCalls = 0
    /\ stateBeforeFirstTimeout = "None"

\* a device whose properties hold no version, as the one of a manual instance
DeviceInit == DeviceCreated("")

(***************************************************************************)
(* connect(), close() and the poll timer.                                  *)
(***************************************************************************)
\* "login" command of getAdditionalData()
LoginCommand == Request("POST", <<"login">>, {"passive"})

\* getAdditionalData() that does not look at the API key
AdditionalDataAlways ==
    (IF octoprintVersion = "" THEN <<Get(<<"version">>)>> ELSE <<>>)
    \o (IF octoprintUserName = "" THEN <<LoginCommand>> ELSE <<>>)
    \o <<Get(<<"printerprofiles">>)>>

\* requests of getAdditionalData(): none without an API key
AdditionalDataRequests ==
    IF apiKey = "" THEN <<>>
    ELSE (IF octoprintVersion = "" THEN <<Get(<<"version">>)>> ELSE <<>>)
         \o (IF octoprintUserName = "" /\ apiKey # "" THEN <<LoginCommand>> ELSE <<>>)
         \o <<Get(<<"printerprofiles">>)>>

\* requests of connect(): the first poll, the settings dump, the additional data
ConnectRequests ==
    UpdateRequests(pollingEndPoints) \o <<Get(<<"settings">>)>> \o AdditionalDataRequests

\* setApiKey(api_key)
SetApiKey(key) ==
    /\ apiKey' = key
    /\ sent' = <<>>
    /\ emitted' = 0
    /\ raised' = FALSE
    /\ closeCalls' = 0
    /\ UNCHANGED <<connectionState, connectionStateBeforeTimeout, updateTimerActive,
                   updateInterval, pollingEndPoints, requests, followedOps,
                   octoprintVersion, octoprintUserName, viewVars, capVars, flowVars,
                   msgVars, histVars>>

Connect ==
    /\ connectionState' = "Connecting"
    /\ emitted' = Emissions(connectionState, "Connecting")
    /\ closeCalls' = 0
    /\ sent' = ConnectRequests
    /\ requests' = Issue(requests, ConnectRequests)
    /\ updateTimerActive' = TRUE
    /\ raised' = FALSE
    /\ stateBeforeFirstTimeout' = "None"
    /\ UNCHANGED <<connectionStateBeforeTimeout, updateInterval, pollingEndPoints,
                   followedOps, accountVars, viewVars, capVars, flowVars, msgVars>>

Close ==
    /\ updateTimerActive' = FALSE
    /\ connectionState' = "Closed"
    /\ emitted' = Emissions(connectionState, "Closed")
    /\ closeCalls' = IF closeCalls < MaxCloseCalls THEN closeCalls + 1 ELSE closeCalls
    /\ progressMessage' = "None"
    /\ errorMessage' = "None"
    /\ waitingMessage' = "None"
    /\ waitingForPrinter' = FALSE
    /\ waitingForAnalysis' = FALSE
    /\ pollingEndPoints' = WithoutFilesEndPoints(pollingEndPoints)
    /\ sent' = <<>>
    /\ raised' = FALSE
    /\ stateBeforeFirstTimeout' = "None"
    /\ UNCHANGED <<connectionStateBeforeTimeout, updateInterval, requests, followedOps, accountVars,
                   viewVars, capVars, uploadOptions, optionsDialogOpen, forcedQueue,
                   selectAndPrintHandledInUpload, uploads, postGcodeReply>>

\* _update(), on a tick of the poll timer
Update ==
    /\ updateTimerActive
    /\ sent' = UpdateRequests(pollingEndPoints)
    /\ requests' = Issue(requests, UpdateRequests(pollingEndPoints))
    /\ emitted' = 0
    /\ closeCalls' = 0
    /\ raised' = FALSE
    /\ UNCHANGED <<connectionState, connectionStateBeforeTimeout, updateTimerActive,
                   updateInterval, pollingEndPoints, followedOps, accountVars, viewVars, capVars,
                   flowVars, msgVars, histVars>>

\* the user changes the "store on SD card" option of the machine
SetStoreOnSd ==
    /\ storeOnSdSetting' = ~storeOnSdSetting
    /\ sent' = <<>>
    /\ emitted' = 0
    /\ closeCalls' = 0
    /\ raised' = FALSE
    /\ UNCHANGED <<connVars, viewVars, storeOnSdSupported, ufpTransferSupported,
                   gcodeAnalysisRequiresWait, gcodeAnalysisSupported, ufpPluginOld,
                   availablePlugs, flowVars, msgVars, histVars>>

(***************************************************************************)
(* Inputs of the upload protocol: the settings of the selected machine     *)
(* (metadata of the global container stack), the file name, and whether    *)
(* the scene is pre-sliced.                                                *)
(***************************************************************************)
Machine(autoPrint, autoSelect, confirm, power, autoConnect, plug) ==
    [autoPrint |-> autoPrint, autoSelect |-> autoSelect, confirm |-> confirm,
     powerControl |-> power, autoConnect |-> autoConnect, powerPlug |-> plug]

MachineSettings ==
    {Machine(TRUE, FALSE, FALSE, FALSE, FALSE, ""),
     Machine(FALSE, TRUE, FALSE, FALSE, FALSE, ""),
     Machine(FALSE, FALSE, FALSE, FALSE, FALSE, ""),
     Machine(TRUE, FALSE, TRUE, FALSE, FALSE, ""),
     Machine(TRUE, FALSE, FALSE, TRUE, FALSE, ""),
     Machine(TRUE, FALSE, FALSE, TRUE, FALSE, "removed plug"),
     Machine(TRUE, FALSE, FALSE, FALSE, TRUE, "")}

FileNames == {"", "a"}

UploadOptionValues ==
    [autoPrint : BOOLEAN, autoSelect : BOOLEAN, fileName : FileNames]

(***************************************************************************)
(* The upload protocol.  The operators below are the bodies of methods     *)
(* that several handlers call; each sets the variables its method assigns. *)
(***************************************************************************)
\* the multipart POST as it is recorded among the requests of a call
UploadSent(upload) ==
    Request("POST multipart", <<"files", upload.dest>>, {"path", "file"} \cup upload.fields)

\* requests whose reply is handled by _onRequestFinished
RequestsOf(issued) == SelectSeq(issued, LAMBDA r : r.op # "POST multipart")

LowestFreeSlot == CHOOSE s \in FreeSlots : \A t \in FreeSlots : s <= t

\* what is kept of an upload in flight: its URL and the name of its file, and
\* (as history) whether it was started to be printed at once, or as a forced
\* queue
Stored(upload, options, forced) ==
    [dest |-> upload.dest, file |-> upload.file, print |-> options.autoPrint /\ ~forced,
     forced |-> forced]

\* _sendPrintJob()
SendPrintJob(options, forced, preSliced) ==
    /\ FreeSlots # {}
    /\ progressMessage' = "sending"
    /\ selectAndPrintHandledInUpload' = HandledInUpload
    /\ uploads' = WithUpload(LowestFreeSlot,
                             Stored(UploadRequest(options, forced, preSliced), options, forced))
    /\ postGcodeReply' = LowestFreeSlot
    /\ sent' = <<UploadSent(UploadRequest(options, forced, preSliced))>>

\* the plug to switch on: the configured one, or the first available one
PowerPlug(machine) ==
    IF machine.powerPlug = "" /\ availablePlugs # <<>>
    THEN availablePlugs[1]
    ELSE machine.powerPlug

PlugAvailable(plug) == \E i \in 1..Len(availablePlugs) : availablePlugs[i] = plug

\* getSetStateCommand(plug, True) sent to plugin/<plugin id>
PowerOnCommand(plug) == Request("POST", <<"plugin", plug>>, {"turnPSUOn"})

ConnectCommand == Request("POST", <<"connection">>, {"connect"})

\* the printer is offline and may be switched on or connected
MayWakePrinter(options, machine) ==
    /\ printers[1].state = "offline"
    /\ options.autoPrint
    /\ (machine.powerControl \/ machine.autoConnect)

\* the power-on or connect command was sent, so the flow waits for the printer
WaitsForPrinter(options, machine) ==
    /\ MayWakePrinter(options, machine)
    /\ machine.powerControl => PlugAvailable(PowerPlug(machine))

\* proceedRequestWrite() that refuses no job
RefusesNothing(options, machine) == FALSE

\* the printer is busy or offline and the job was to be printed at once
RefusesBusyPrinter(options, machine) ==
    /\ ~MayWakePrinter(options, machine)
    /\ printers[1].state \notin {"idle", ""}
    /\ options.autoPrint

\* proceedRequestWrite()
ProceedRequestWrite(options, machine, preSliced) ==
    /\ forcedQueue' = FALSE
    /\ IF WaitsForPrinter(options, machine)
       THEN /\ sent' = <<IF machine.powerControl
                         THEN PowerOnCommand(PowerPlug(machine))
                         ELSE ConnectCommand>>
            /\ waitingMessage' = "printer"
            /\ waitingForPrinter' = TRUE
            /\ errorMessage' = "None"
            /\ progressMessage' = "None"
            /\ UNCHANGED <<selectAndPrintHandledInUpload, uploads, postGcodeReply>>
       ELSE IF RefusesBusyPrinter(options, machine)
       THEN /\ errorMessage' = "queue"
            /\ progressMessage' = "None"
            /\ sent' = <<>>
            /\ UNCHANGED <<waitingMessage, waitingForPrinter,
                           selectAndPrintHandledInUpload, uploads, postGcodeReply>>
       ELSE /\ SendPrintJob(options, FALSE, preSliced)
            /\ errorMessage' = "None"
            /\ UNCHANGED <<waitingMessage, waitingForPrinter>>

\* variables no step of the upload protocol outside a reply handler changes
FlowFrame ==
    /\ emitted' = 0
    /\ closeCalls' = 0
    /\ raised' = FALSE
    /\ requests' = Issue(requests, RequestsOf(sent'))
    /\ UNCHANGED <<connectionState, connectionStateBeforeTimeout, updateTimerActive,
                   updateInterval, followedOps, accountVars, viewVars, capVars, histVars>>

\* requestWrite(): configure the options, then ask for confirmation or proceed
RequestWrite(fileName, machine, preSliced) ==
    /\ printers # <<>>
    /\ LET options == [autoPrint |-> machine.autoPrint,
                       autoSelect |-> machine.autoSelect,
                       fileName |-> fileName]
       IN  /\ uploadOptions' = options
           /\ IF machine.confirm
              THEN /\ optionsDialogOpen' = TRUE
                   /\ sent' = <<>>
                   /\ UNCHANGED <<forcedQueue, selectAndPrintHandledInUpload,
                                  waitingForPrinter, uploads, postGcodeReply, msgVars>>
              ELSE /\ ProceedRequestWrite(options, machine, preSliced)
                   /\ UNCHANGED optionsDialogOpen
    /\ UNCHANGED <<waitingForAnalysis, pollingEndPoints>>
    /\ FlowFrame

\* the user accepts the options dialog, with the options as edited in it
AcceptOptionsDialog(options, machine, preSliced) ==
    /\ optionsDialogOpen
    /\ optionsDialogOpen' = FALSE
    /\ uploadOptions' = options
    /\ ProceedRequestWrite(options, machine, preSliced)
    /\ UNCHANGED <<waitingForAnalysis, pollingEndPoints>>
    /\ FlowFrame

\* the user dismisses the options dialog
RejectOptionsDialog ==
    /\ optionsDialogOpen
    /\ optionsDialogOpen' = FALSE
    /\ sent' = <<>>
    /\ UNCHANGED <<uploadOptions, forcedQueue, selectAndPrintHandledInUpload,
                   waitingForAnalysis, waitingForPrinter, uploads, postGcodeReply,
                   msgVars, pollingEndPoints>>
    /\ FlowFrame

\* _stopWaitingForPrinter(message, action_id), from the waiting message
StopWaitingForPrinter(action, preSliced) ==
    /\ waitingMessage = "printer"
    /\ waitingMessage' = "None"
    /\ waitingForPrinter' = FALSE
    /\ IF action = "queue"
       THEN /\ forcedQueue' = TRUE
            /\ SendPrintJob(uploadOptions, TRUE, preSliced)
       ELSE /\ sent' = <<>>
            /\ UNCHANGED <<forcedQueue, selectAndPrintHandledInUpload, uploads,
                           postGcodeReply, progressMessage>>
    /\ UNCHANGED <<uploadOptions, optionsDialogOpen, waitingForAnalysis, errorMessage,
                   pollingEndPoints>>
    /\ FlowFrame

\* _queuePrintJob(message, action_id), from the "busy" or "offline" error message
QueuePrintJob(preSliced) ==
    /\ errorMessage = "queue"
    /\ errorMessage' = "None"
    /\ forcedQueue' = TRUE
    /\ SendPrintJob(uploadOptions, TRUE, preSliced)
    /\ UNCHANGED <<uploadOptions, optionsDialogOpen, waitingForAnalysis,
                   waitingForPrinter, waitingMessage, pollingEndPoints>>
    /\ FlowFrame

\* the first polled end point that is a file-information end point
FirstFilesEndPoint ==
    LET found == SelectSeq(pollingEndPoints, IsFilesEndPoint)
    IN  IF found = <<>> THEN <<>> ELSE found[1]

\* _stopWaitingForAnalysis(message, action_id), from the waiting message
StopWaitingForAnalysis(action) ==
    /\ waitingMessage = "analysis"
    /\ waitingMessage' = "None"
    /\ waitingForAnalysis' = FALSE
    /\ IF FirstFilesEndPoint = <<>>
       THEN /\ sent' = <<>>
            /\ UNCHANGED pollingEndPoints
       ELSE /\ pollingEndPoints' = WithoutFilesEndPoints(pollingEndPoints)
            /\ sent' = IF action = "print"
                       THEN <<SelectAndPrint(FirstFilesEndPoint, uploadOptions, forcedQueue)>>
                       ELSE <<>>
    /\ UNCHANGED <<uploadOptions, optionsDialogOpen, forcedQueue,
                   selectAndPrintHandledInUpload, waitingForPrinter, uploads,
                   postGcodeReply, progressMessage, errorMessage>>
    /\ FlowFrame

\* the uploads in flight when nothing is aborted
AbortsNothing(reply) == uploads

\* the uploads in flight after _post_gcode_reply.abort()
Aborted(reply) ==
    IF reply \in DOMAIN uploads THEN WithoutUpload(reply) ELSE uploads

\* _cancelSendGcode(message, action_id), from the "sending" progress message.
\* abort() ends the request without a status: its completion is either not
\* handed to _onUploadFinished, or the handler fails when it compares the
\* missing status with 400, before it acts on the reply.
CancelSendGcode ==
    /\ progressMessage = "sending"
    /\ progressMessage' = "None"
    /\ uploads' = Aborted(postGcodeReply)
    /\ postGcodeReply' = 0
    /\ sent' = <<>>
    /\ raised' \in IF postGcodeReply \in DOMAIN uploads THEN BOOLEAN ELSE {FALSE}
    /\ emitted' = 0
    /\ closeCalls' = 0
    /\ requests' = Issue(requests, RequestsOf(sent'))
    /\ UNCHANGED <<uploadOptions, optionsDialogOpen, forcedQueue,
                   selectAndPrintHandledInUpload, waitingForAnalysis, waitingForPrinter,
                   errorMessage, waitingMessage, pollingEndPoints>>
    /\ UNCHANGED <<connectionState, connectionStateBeforeTimeout, updateTimerActive,
                   updateInterval, followedOps, accountVars, viewVars, capVars, histVars>>

\* _onUploadProgress(sent, total) with all bytes sent
OnUploadProgress ==
    /\ DOMAIN uploads # {}
    /\ progressMessage # "None"
    /\ progressMessage' = "storing"
    /\ sent' = <<>>
    /\ UNCHANGED <<flowVars, errorMessage, waitingMessage, pollingEndPoints>>
    /\ FlowFrame

(***************************************************************************)
(* _onRequestFinished(reply): the handler of every reply but the upload's. *)
(***************************************************************************)
\* the saved state is restored by a reply without error
Restores(reply) == Truthy(connectionStateBeforeTimeout) /\ reply.error = "NoError"

\* connection state after the first part of the handler
RestoredState(state, before, error) ==
    IF Truthy(before) /\ error = "NoError" THEN before ELSE state

Restored(reply) ==
    RestoredState(connectionState, connectionStateBeforeTimeout, reply.error)

\* a printer-status reply moves a connecting device to connected
Connected(state) == IF state = "Connecting" THEN "Connected" ELSE state

\* the generic error handler at the end of _onRequestFinished
GenericError(status) == IF status >= 400 THEN "error" ELSE errorMessage

\* hotend temperatures of the printer from the temperature object
HotendsFrom(extruders, count, temperature) ==
    [i \in 1..Len(extruders) |->
        IF i > count THEN extruders[i]
        ELSE IF (i - 1) \in temperature.tools
        THEN [hotendTemperature |-> Temperature(temperature.tool.actual),
              targetHotendTemperature |-> Temperature(temperature.tool.target)]
        ELSE [hotendTemperature |-> 0, targetHotendTemperature |-> 0]]

\* extruder count after a payload with a temperature object
ExtrudersFrom(temperature) ==
    IF numberOfExtrudersSet THEN numberOfExtruders ELSE CountTools(temperature.tools, 0)

\* the printer model after the temperature object of a payload was applied
WithTemperatures(printer, temperature) ==
    LET count == ExtrudersFrom(temperature)
        model == IF ~numberOfExtrudersSet /\ count > 1 THEN NewPrinter(count) ELSE printer
    IN  [model EXCEPT
            !.extruders = HotendsFrom(model.extruders, count, temperature),
            !.bedTemperature =
                IF temperature.bed # <<>> THEN Temperature(temperature.bed[1].actual)
                ELSE -1,
            !.targetBedTemperature =
                IF temperature.bed # <<>> THEN Temperature(temperature.bed[1].target)
                ELSE 0]

\* printer state of a status-200 payload: offline unless state.flags says otherwise
PrinterStateOf(json) ==
    IF json.state # <<>> THEN PrinterStateFromFlags(json.state[1]) ELSE "offline"

\* reply to GET api/printer
PrinterReply(reply, restored) ==
    LET printer == IF printers = <<>> THEN NewPrinter(numberOfExtruders) ELSE printers[1]
        json == PrinterJson(reply.body)
    IN  /\ IF reply.status = 200
           THEN /\ connectionState' = Connected(restored)
                /\ updateInterval' = UpdateFastInterval
                /\ IF json.temperature # <<>>
                   THEN /\ numberOfExtruders' = ExtrudersFrom(json.temperature[1])
                        /\ numberOfExtrudersSet' =
                              (numberOfExtrudersSet \/ ExtrudersFrom(json.temperature[1]) > 0)
                        /\ printers' =
                              <<[WithTemperatures(printer, json.temperature[1])
                                    EXCEPT !.state = PrinterStateOf(json)]>>
                   ELSE /\ printers' = <<[printer EXCEPT !.state = PrinterStateOf(json)]>>
                        /\ UNCHANGED <<numberOfExtruders, numberOfExtrudersSet>>
                /\ UNCHANGED errorMessage
           ELSE /\ printers' = <<SetOffline(printer)>>
                /\ connectionState' =
                      IF reply.status = 409 THEN Connected(restored) ELSE restored
                /\ IF reply.status \in {401, 403, 409, 502, 503}
                   THEN UNCHANGED <<updateInterval, errorMessage>>
                   ELSE /\ updateInterval' = UpdateSlowInterval
                        /\ errorMessage' = GenericError(reply.status)
                /\ UNCHANGED <<numberOfExtruders, numberOfExtrudersSet>>
        /\ sent' = <<>>
        /\ raised' = FALSE
        /\ UNCHANGED <<pollingEndPoints, capVars, flowVars, progressMessage,
                       waitingMessage>>

\* "streaming to SD card" progress message after a job payload
StreamingMessage(completion, jobState) ==
    IF NonZero(completion) /\ jobState = "pre_print"
    THEN IF progressMessage = "None" THEN "streaming" ELSE progressMessage
    ELSE IF progressMessage = "streaming" THEN "None" ELSE progressMessage

\* the print job after the state and progress of a job payload were applied
JobFrom(job, json) ==
    LET state == IF json.state = <<>> THEN "offline" ELSE JobStateFromString(json.state[1])
        progress == json.progress[1]
    IN  IF json.progress = <<>> THEN [job EXCEPT !.state = state]
        ELSE IF NonZero(progress.printTime)
        THEN [job EXCEPT !.state = state,
                         !.timeElapsed = progress.printTime,
                         !.timeTotal = TimeTotalFromProgress(progress)]
        ELSE [job EXCEPT !.state = state, !.timeElapsed = 0, !.timeTotal = 0]

\* printer state after a job payload: "Operational" makes the printer idle
PrinterStateAfterJob(printer, json) ==
    IF json.state # <<>> /\ json.state[1] = "Operational" THEN "idle" ELSE printer.state

\* a job reply resumes the flow at every idle printer, waiting or not
ResumesWheneverIdle(state) == state = "idle"

\* a job reply resumes the flow that waits for the printer once it is idle
ResumesUpload(state) == waitingForPrinter /\ state = "idle"

\* reply to GET api/job with status 200
JobReplyOk(reply, restored, preSliced) ==
    LET printer == printers[1]
        json == JobJson(reply.body)
        job == JobFrom(IF printer.activePrintJob = <<>> THEN NewPrintJob
                       ELSE printer.activePrintJob[1], json)
        state == PrinterStateAfterJob(printer, json)
    IN  IF json.progress = <<>>
        THEN \* "completion" is read without having been assigned
             /\ raised' = TRUE
             /\ printers' = <<[printer EXCEPT !.state = state, !.activePrintJob = <<job>>]>>
             /\ sent' = <<>>
             /\ UNCHANGED <<flowVars, msgVars>>
        ELSE IF json.name = <<>>
        THEN \* json_data["job"]["file"]["name"] is missing
             /\ raised' = TRUE
             /\ printers' = <<[printer EXCEPT !.state = state, !.activePrintJob = <<job>>]>>
             /\ progressMessage' = StreamingMessage(json.progress[1].completion, job.state)
             /\ sent' = <<>>
             /\ UNCHANGED <<flowVars, errorMessage, waitingMessage>>
        ELSE /\ raised' = FALSE
             /\ printers' = <<[printer EXCEPT
                                  !.state = state,
                                  !.activePrintJob = <<[job EXCEPT !.name = json.name[1]]>>]>>
             /\ IF ResumesUpload(state)
                THEN /\ waitingForPrinter' = FALSE
                     /\ waitingMessage' = "None"
                     /\ SendPrintJob(uploadOptions, forcedQueue, preSliced)
                     /\ UNCHANGED <<uploadOptions, optionsDialogOpen, forcedQueue,
                                    waitingForAnalysis>>
                ELSE /\ progressMessage' =
                           StreamingMessage(json.progress[1].completion, job.state)
                     /\ sent' = <<>>
                     /\ UNCHANGED <<flowVars, waitingMessage>>
             /\ UNCHANGED errorMessage

\* reply to GET api/job
JobReply(reply, restored, preSliced) ==
    /\ connectionState' = restored
    /\ IF printers = <<>>
       THEN /\ sent' = <<>>
            /\ raised' = FALSE
            /\ UNCHANGED <<printers, flowVars, msgVars>>
       ELSE IF reply.status = 200
       THEN JobReplyOk(reply, restored, preSliced)
       ELSE /\ sent' = <<>>
            /\ raised' = FALSE
            /\ IF reply.status \in {401, 403, 502, 503}
               THEN /\ printers' = <<SetOffline(printers[1])>>
                    /\ UNCHANGED errorMessage
               ELSE /\ errorMessage' = GenericError(reply.status)
                    /\ UNCHANGED printers
            /\ UNCHANGED <<flowVars, progressMessage, waitingMessage>>
    /\ UNCHANGED <<updateInterval, pollingEndPoints, numberOfExtruders,
                   numberOfExtrudersSet, capVars>>

\* parseSettingsData(json_data), for the reply to GET api/settings
SettingsReply(reply, restored) ==
    LET json == SettingsJson(reply.body)
        plugins == json.plugins[1]
    IN  /\ connectionState' = restored
        /\ IF reply.status = 200
           THEN /\ storeOnSdSupported' =
                      IF json.sdSupport # <<>> THEN json.sdSupport[1] ELSE FALSE
                /\ gcodeAnalysisRequiresWait' =
                      IF json.runAt # <<>> THEN json.runAt[1] = "idle"
                      ELSE gcodeAnalysisRequiresWait
                /\ IF json.plugins # <<>>
                   THEN /\ availablePlugs' = plugins.plugs
                        /\ gcodeAnalysisSupported' =
                              (gcodeAnalysisSupported \/ plugins.analyzers = "enabled")
                        /\ ufpTransferSupported' =
                              (ufpTransferSupported \/ plugins.ufp # "absent")
                        /\ ufpPluginOld' =
                              IF plugins.ufp = "absent" THEN ufpPluginOld
                              ELSE plugins.ufp = "old"
                   ELSE UNCHANGED <<availablePlugs, gcodeAnalysisSupported,
                                    ufpTransferSupported, ufpPluginOld>>
                /\ UNCHANGED errorMessage
           ELSE /\ errorMessage' = GenericError(reply.status)
                /\ UNCHANGED <<storeOnSdSupported, gcodeAnalysisRequiresWait,
                               availablePlugs, gcodeAnalysisSupported,
                               ufpTransferSupported, ufpPluginOld>>
        /\ sent' = <<>>
        /\ raised' = FALSE
        /\ UNCHANGED <<updateInterval, pollingEndPoints, viewVars, storeOnSdSetting,
                       flowVars, progressMessage, waitingMessage>>

\* reply to GET api/files/...: information about an uploaded file
FilesReply(req, reply, restored) ==
    /\ connectionState' = restored
    /\ IF reply.status = 200 /\ waitingForAnalysis /\ FileJson(reply.body).analysisProgress
       THEN /\ waitingForAnalysis' = FALSE
            /\ waitingMessage' = "None"
            /\ pollingEndPoints' = WithoutFilesEndPoints(pollingEndPoints)
            /\ sent' = <<SelectAndPrint(req.url, uploadOptions, forcedQueue)>>
            /\ UNCHANGED errorMessage
       ELSE /\ errorMessage' =
                  IF reply.status = 200 THEN errorMessage ELSE GenericError(reply.status)
            /\ sent' = <<>>
            /\ UNCHANGED <<waitingForAnalysis, waitingMessage, pollingEndPoints>>
    /\ raised' = FALSE
    /\ UNCHANGED <<updateInterval, viewVars, capVars, uploadOptions, optionsDialogOpen,
                   forcedQueue, selectAndPrintHandledInUpload, waitingForPrinter,
                   uploads, postGcodeReply, progressMessage>>

\* a 404 on a command for a file on the SD card is ignored
IgnoredNotFound(req, status) ==
    /\ status = 404
    /\ \/ /\ Dispatch(req) = "post files"
          /\ \E i \in 1..(Len(req.url) - 2) :
                req.url[i] = "files" /\ req.url[i + 1] = "sdcard"
       \/ Dispatch(req) \in {"version", "post login"}

\* reply to a command (POST), and to any request no other branch handles
CommandReply(req, reply, restored) ==
    /\ connectionState' = restored
    /\ errorMessage' = IF IgnoredNotFound(req, reply.status) THEN errorMessage
                       ELSE GenericError(reply.status)
    /\ sent' = <<>>
    /\ raised' = FALSE
    /\ UNCHANGED <<updateInterval, pollingEndPoints, viewVars, capVars, flowVars,
                   progressMessage, waitingMessage>>

\* a reply that timed out: the state is saved and the device enters Error
TimeoutHandled ==
    /\ connectionStateBeforeTimeout' = connectionState
    /\ connectionState' = "Error"
    /\ stateBeforeFirstTimeout' =
          IF stateBeforeFirstTimeout = "None" THEN connectionState
          ELSE stateBeforeFirstTimeout
    /\ sent' = <<>>
    /\ raised' = FALSE
    /\ UNCHANGED <<updateInterval, pollingEndPoints, viewVars, capVars, flowVars,
                   msgVars>>

\* a reply without HTTP status: nothing but the restore of the first part
NoStatusHandled(reply, restored) ==
    /\ connectionState' = restored
    /\ sent' = <<>>
    /\ raised' = FALSE
    /\ UNCHANGED <<updateInterval, pollingEndPoints, viewVars, capVars, flowVars,
                   msgVars>>

\* The timer polls again whether or not earlier polls were answered, so any
\* number of replies to a polled end point may be pending: a poll stays
\* outstanding when one of its replies is handled.  Other requests are sent
\* once per call and leave the bag with their reply.
IsPoll(req) ==
    req.op = "GET" /\ req.url \notin {<<"settings">>, <<"version">>, <<"printerprofiles">>}

\* _octoprint_version after a reply: the "server" of a version payload
VersionAfter(req, reply) ==
    IF /\ reply.error # "TimeoutError"
       /\ Dispatch(req) = "version"
       /\ reply.status = 200
       /\ VersionJson(reply.body).server # <<>>
    THEN VersionJson(reply.body).server[1]
    ELSE octoprintVersion

\* _octoprint_user_name after a reply to the login command
UserNameAfter(req, reply) ==
    IF reply.error = "TimeoutError" \/ Dispatch(req) # "post login" THEN octoprintUserName
    ELSE IF reply.status = 200
    THEN IF LoginJson(reply.body).name # <<>> THEN LoginJson(reply.body).name[1]
         ELSE "Anonymous user"
    ELSE IF reply.status = 404 THEN "Anonymous user"
    ELSE IF reply.status \in {401, 403} THEN "Unknown user"
    ELSE octoprintUserName

Answered(req) == IF IsPoll(req) THEN requests ELSE requests (-) SetToBag({req})

\* _onRequestFinished(reply) for the reply to an outstanding request
OnRequestFinished(req, reply, preSliced) ==
    /\ BagIn(req, requests)
    /\ IF reply.error = "TimeoutError"
       THEN TimeoutHandled
       ELSE /\ connectionStateBeforeTimeout' =
                  IF Restores(reply) THEN "None" ELSE connectionStateBeforeTimeout
            /\ stateBeforeFirstTimeout' = "None"
            /\ IF reply.status = 0
               THEN NoStatusHandled(reply, Restored(reply))
               ELSE CASE Dispatch(req) = "printer" -> PrinterReply(reply, Restored(reply))
                      [] Dispatch(req) = "job" -> JobReply(reply, Restored(reply), preSliced)
                      [] Dispatch(req) = "settings" ->
                            SettingsReply(reply, Restored(reply))
                      [] Dispatch(req) = "files" -> FilesReply(req, reply, Restored(reply))
                      [] OTHER -> CommandReply(req, reply, Restored(reply))
    /\ emitted' = Emissions(connectionState, Restored(reply))
                  + Emissions(Restored(reply), connectionState')
    /\ closeCalls' = 0
    /\ requests' = Issue(Answered(req), RequestsOf(sent'))
    /\ octoprintVersion' = VersionAfter(req, reply)
    /\ octoprintUserName' = UserNameAfter(req, reply)
    /\ UNCHANGED <<updateTimerActive, followedOps, apiKey>>

(***************************************************************************)
(* _onUploadFinished(reply): the handler of the reply to an upload.        *)
(***************************************************************************)
\* end point of the uploaded file, from the Location header of the reply
UploadedEndPoint(upload) ==
    <<"files", upload.dest>>
    \o Segments(IF TransferAsUfp /\ EndsWithUfp(upload.file)
                THEN ExtractedGcode(upload.file, ufpPluginOld)
                ELSE upload.file)

\* the upload is followed by a wait for the analysis of the file
StartsAnalysisWait ==
    uploadOptions.autoPrint /\ ~forcedQueue /\ WaitForAnalysis

\* the select (and print) command that follows a stored upload, if any
CommandAfterUpload(endPoint) ==
    IF forcedQueue \/ ~uploadOptions.autoPrint
    THEN IF uploadOptions.autoPrint \/ uploadOptions.autoSelect
         THEN <<SelectAndPrint(endPoint, uploadOptions, forcedQueue)>>
         ELSE <<>>
    ELSE IF ~WaitForAnalysis /\ ~selectAndPrintHandledInUpload
    THEN <<SelectAndPrint(endPoint, uploadOptions, forcedQueue)>>
    ELSE <<>>

\* the reply to an upload: its status (0 when it has none), its content type,
\* its body as text, its reason phrase ("None" when the protocol has none) and
\* whether it has a Location header
UploadReply(status, contentType, text, reason, location) ==
    [status |-> status, contentType |-> contentType, text |-> text,
     reason |-> reason, location |-> location]

\* the server stored the file
Created == UploadReply(201, "application/json", "", "Created", TRUE)

\* error_string of _onUploadFinished, before it is cut to 100 characters
ErrorString(reply) ==
    IF reply.status \in {401, 403} THEN "not allowed"
    ELSE IF reply.status = 409 THEN "conflict"
    ELSE IF reply.status >= 400
    THEN IF reply.contentType = "text/plain"
         THEN IF reply.text # "" THEN reply.text ELSE reply.reason
         ELSE "unknown error"
    ELSE ""

\* the handler ends with an exception: the missing status is compared with
\* 400, the missing reason phrase is cut, or the missing Location is read
UploadRaises(reply) ==
    \/ reply.status = 0
    \/ ErrorString(reply) = "None"
    \/ ErrorString(reply) = "" /\ ~reply.location

OnUploadFinished(slot, reply) ==
    /\ slot \in DOMAIN uploads
    /\ uploads' = WithoutUpload(slot)
    /\ progressMessage' = "None"
    /\ IF UploadRaises(reply)
       THEN /\ raised' = TRUE
            /\ sent' = <<>>
            /\ UNCHANGED <<errorMessage, waitingMessage, waitingForAnalysis,
                           pollingEndPoints>>
       ELSE IF ErrorString(reply) # ""
       THEN /\ errorMessage' = "error"
            /\ raised' = FALSE
            /\ sent' = <<>>
            /\ UNCHANGED <<waitingMessage, waitingForAnalysis, pollingEndPoints>>
       ELSE IF StartsAnalysisWait
       THEN /\ Len(SelectSeq(pollingEndPoints, IsFilesEndPoint)) < MaxFileEndPoints
            /\ waitingMessage' = "analysis"
            /\ waitingForAnalysis' = TRUE
            /\ pollingEndPoints' = Append(pollingEndPoints, UploadedEndPoint(uploads[slot]))
            /\ raised' = FALSE
            /\ sent' = <<>>
            /\ UNCHANGED errorMessage
       ELSE /\ sent' = CommandAfterUpload(UploadedEndPoint(uploads[slot]))
            /\ raised' = FALSE
            /\ UNCHANGED <<errorMessage, waitingMessage, waitingForAnalysis,
                           pollingEndPoints>>
    /\ emitted' = 0
    /\ closeCalls' = 0
    /\ requests' = Issue(requests, RequestsOf(sent'))
    /\ UNCHANGED <<connectionState, connectionStateBeforeTimeout, updateTimerActive,
                   updateInterval, followedOps, accountVars, viewVars, capVars, uploadOptions,
                   optionsDialogOpen,
                   forcedQueue, selectAndPrintHandledInUpload, waitingForPrinter,
                   postGcodeReply, histVars>>

(***************************************************************************)
(* Replies the server may give in the model of the device.                 *)
(***************************************************************************)
PrinterBody(temperature, state) ==
    [valid |-> TRUE, temperature |-> temperature, state |-> state]

JobBody(state, progress, name) ==
    [valid |-> TRUE, state |-> state, progress |-> progress, name |-> name]

Progress(printTime, printTimeLeft, completion) ==
    [printTime |-> printTime, printTimeLeft |-> printTimeLeft, completion |-> completion]

SettingsBody(sdSupport, runAt, plugins) ==
    [valid |-> TRUE, sdSupport |-> sdSupport, runAt |-> runAt, plugins |-> plugins]

Plugins(plugs, analyzers, ufp) == [plugs |-> plugs, analyzers |-> analyzers, ufp |-> ufp]

FileBody(analysisProgress) == [valid |-> TRUE, analysisProgress |-> analysisProgress]

Temperatures(tools, tool, bed) == [tools |-> tools, tool |-> tool, bed |-> bed]

Reading(actual, target) == [actual |-> actual, target |-> target]

PrinterReplies ==
    {Reply(200, NoBody),
     Reply(200, PrinterBody(<<>>, <<{"operational", "ready"}>>)),
     Reply(200, PrinterBody(<<Temperatures({0}, Reading(JsonNull, 0),
                                           <<Reading(60, JsonNull)>>)>>,
                            <<{"operational", "printing"}>>)),
     Reply(401, NoBody),
     Reply(409, NoBody),
     Reply(500, NoBody),
     Reply(503, NoBody)}

JobReplies ==
    {Reply(200, NoBody),
     Reply(200, JobBody(<<"Operational">>, <<Progress(0, JsonNull, 0)>>, <<"a.gcode">>)),
     Reply(200, JobBody(<<"Printing">>, <<Progress(10, 10, 50)>>, <<"a.gcode">>)),
     Reply(503, NoBody)}

SettingsReplies ==
    {Reply(200, NoBody),
     Reply(200, SettingsBody(<<TRUE>>, <<"never">>, <<Plugins(<<>>, "absent", "absent")>>))}

FilesReplies == {Reply(200, FileBody(TRUE)), Reply(200, FileBody(FALSE)), Reply(404, NoBody)}

CommandReplies == {Reply(204, NoBody), Reply(409, NoBody)}

\* the replies to a request: a transport outcome, or an answer of the server
Replies(req) ==
    TransportReplies \cup
    CASE Dispatch(req) = "printer" -> PrinterReplies
      [] Dispatch(req) = "job" -> JobReplies
      [] Dispatch(req) = "settings" -> SettingsReplies
      [] Dispatch(req) = "files" -> FilesReplies
      [] OTHER -> CommandReplies

\* replies to an upload: stored; refused with a status of its own; failed
\* with a JSON body, with a text, or with neither text nor reason phrase
UploadAnswers ==
    {Created,
     UploadReply(403, "application/json", "", "Forbidden", FALSE),
     UploadReply(409, "application/json", "", "Conflict", FALSE),
     UploadReply(500, "application/json", "", "Internal Server Error", FALSE),
     UploadReply(500, "text/plain", "disk full", "Internal Server Error", FALSE),
     UploadReply(503, "text/plain", "", "", FALSE),
     UploadReply(503, "text/plain", "", "None", FALSE)}

(***************************************************************************)
(* OctoPrintOutputDevicePlugin: the registry of instances and the store of *)
(* manual instances.  An instance of the registry is the device reduced to *)
(* what the registry reads and what changes it: the connection state, the  *)
(* state saved at a timeout, the poll timer and whether requests are out.  *)
(***************************************************************************)
\* an OctoPrintOutputDevice as its constructor leaves it
NewInstance(manual) ==
    [connectionState |-> "Closed", connectionStateBeforeTimeout |-> "None",
     updateTimerActive |-> FALSE, requested |-> FALSE, manual |-> manual]

\* connect() of an instance
InstanceConnect(instance) ==
    [instance EXCEPT !.connectionState = "Connecting", !.updateTimerActive = TRUE,
                     !.requested = TRUE]

\* close() of an instance
InstanceClose(instance) ==
    [instance EXCEPT !.connectionState = "Closed", !.updateTimerActive = FALSE]

\* _onRequestFinished of an instance, for a reply that timed out
InstanceTimeout(instance) ==
    [instance EXCEPT !.connectionStateBeforeTimeout = instance.connectionState,
                     !.connectionState = "Error"]

\* _onRequestFinished of an instance, for a printer status with HTTP 200
InstanceStatus(instance) ==
    [instance EXCEPT
        !.connectionState =
            Connected(RestoredState(instance.connectionState,
                                    instance.connectionStateBeforeTimeout, "NoError")),
        !.connectionStateBeforeTimeout =
            IF Truthy(instance.connectionStateBeforeTimeout) THEN "None"
            ELSE instance.connectionStateBeforeTimeout]

\* the dict with d[key] = instance
WithInstance(dict, key, instance) ==
    [k \in DOMAIN dict \cup {key} |-> IF k = key THEN instance ELSE dict[k]]

\* the dict after pop(key, None)
WithoutInstance(dict, key) == [k \in DOMAIN dict \ {key} |-> dict[k]]

\* getGlobalContainerStack() when there is no active machine
NoStack == "NoStack"

\* _instances after addInstance(name, ...): nothing without an active machine;
\* else a new device, connected when it is the one of the active machine
AddedInstance(dict, name, manual) ==
    IF octoprintId = NoStack THEN dict
    ELSE WithInstance(dict, name,
                      IF name = octoprintId THEN InstanceConnect(NewInstance(manual))
                      ELSE NewInstance(manual))

\* what is recorded of a device that was taken out of _instances
Left(instance) ==
    [connectionState |-> instance.connectionState,
     updateTimerActive |-> instance.updateTimerActive]

\* a device after removeInstance() has popped it: disconnected if connected
Removed(instance) ==
    Left(IF IsConnected(instance.connectionState) THEN InstanceClose(instance)
         ELSE instance)

\* the devices under the given keys of a dict
InstancesAt(dict, keys) == {dict[key] : key \in keys \cap DOMAIN dict}

\* _instances after reCheckConnections() for the active machine's octoprint_id
ReChecked(dict, id) ==
    [key \in DOMAIN dict |->
        IF key = id THEN InstanceConnect(dict[key])
        ELSE IF IsConnected(dict[key].connectionState) THEN InstanceClose(dict[key])
        ELSE dict[key]]

\* names of the entries of a dict of manual instances
Names(store) == {store[i].name : i \in DOMAIN store}

\* _manual_instances[name] = properties: a known name keeps its place
WithManualInstance(store, name, properties) ==
    IF name \in Names(store)
    THEN [i \in DOMAIN store |->
             IF store[i].name = name THEN [name |-> name, properties |-> properties]
             ELSE store[i]]
    ELSE Append(store, [name |-> name, properties |-> properties])

\* removeManualInstance() that leaves the dict as it is
KeepsManualInstance(store, name) == store

\* _manual_instances.pop(name, None)
WithoutManualInstance(store, name) ==
    LET Other(entry) == entry.name # name IN SelectSeq(store, Other)

\* json.dumps(_manual_instances): the text of an object with the entries in order
Dumped(store) == [object |-> TRUE, entries |-> store]

\* json.loads of the preference, {} unless it is the text of an object
Loaded(preference) == IF preference.object THEN preference.entries ELSE <<>>

\* a preference that holds JSON which is not an object
NotAnObject == [object |-> FALSE, entries |-> <<>>]

\* what a call of the machine action did: the requests it issued and aborted,
\* the signals it emitted, the web pages it opened and its calls of the instance
Did(issued, aborted, signals, webPages, instanceCalls) ==
    [issued |-> issued, aborted |-> aborted, signals |-> signals,
     webPages |-> webPages, instanceCalls |-> instanceCalls]

\* the machine action after __init__, with an empty cache of keys
ActionInit ==
    /\ actionReplies = <<>>
    /\ appkeyRequest = "None"
    /\ appkeyHost = "None"
    /\ appkeyReply = 0
    /\ appkeyInstanceId = ""
    /\ appkeyPollTimerActive = FALSE
    /\ settingsReply = 0
    /\ settingsReplyTimeout = FALSE
    /\ settingsInstance = "None"
    /\ instanceSupportsAppkeys = FALSE
    /\ instanceResponded = FALSE
    /\ instanceInError = FALSE
    /\ instanceApiKeyAccepted = FALSE
    /\ keysCache = <<>>
    /\ instanceApiKeys = <<>>
    /\ actionCall = Did(<<>>, {}, {}, 0, <<>>)

\* the plugin and its machine action after __init__, with the given value of
\* the preference
PluginInit(preference) ==
    /\ ActionInit
    /\ instances = <<>>
    /\ octoprintId = "None"
    /\ manualInstancesPreference = preference
    /\ manualInstances = Loaded(preference)
    /\ lastManualAdd = <<>>
    /\ dropped = {}
    /\ serviceRemoved = "None"
    /\ zeroconf = "None"
    /\ browser = "None"
    /\ keepAliveTimerActive = FALSE
    /\ consecutiveZeroconfRestarts = 0
    /\ openBackends = 0
    /\ aliveBrowsers = 0

(***************************************************************************)
(* The device, its poll timer and its server: connection life cycle and    *)
(* reconciliation of the replies to the polls.                             *)
(***************************************************************************)
\* the replies to polls and to commands are delivered
Init ==
    DeviceInit /\ followedOps = {"GET", "POST"} /\ PluginInit(Dumped(<<>>)) /\ useZeroconf = TRUE

RequestFinished ==
    \E req \in BagToSet(requests) :
        \E reply \in Replies(req) : OnRequestFinished(req, reply, FALSE)

Next ==
    \/ Connect /\ UNCHANGED pluginVars
    \/ Close /\ UNCHANGED pluginVars
    \/ Update /\ UNCHANGED pluginVars
    \/ RequestFinished /\ UNCHANGED pluginVars

Spec == Init /\ [][Next]_vars

(***************************************************************************)
(* Properties of the connection life cycle and of the reconciliation of    *)
(* poll replies, checked under Spec.                                       *)
(***************************************************************************)
\* a step that handles the reply to a request without transport or HTTP error
HandlesSuccess(req, reply) ==
    reply.error = "NoError" /\ OnRequestFinished(req, reply, FALSE)

\* C2: after a run of consecutive timeouts that began in state s (Connecting or
\* Connected), the first successful response that is handled puts the device
\* back in s (or in the state the same response moves s to) and clears the
\* saved pre-timeout state.
C2_SuccessRestoresStateBeforeFirstTimeout ==
    [][\A req \in BagToSet(requests) : \A reply \in Replies(req) :
          (stateBeforeFirstTimeout \in {"Connecting", "Connected"}
           /\ HandlesSuccess(req, reply))
          => /\ connectionState' \in {stateBeforeFirstTimeout,
                                      Connected(stateBeforeFirstTimeout)}
             /\ connectionStateBeforeTimeout' = "None"]_vars

\* a step that handles a reply to the poll of an end point of the given kind
HandlesPoll(kind, req, reply) ==
    Dispatch(req) = kind /\ OnRequestFinished(req, reply, FALSE)

\* C3: the displayed printer state is the state derived from the state.flags
\* of the latest parsed printer-status response: a parsed printer-status
\* response sets it to the derived state, and handling a job-status response
\* (HTTP 200) does not change it.
C3_PrinterStateFollowsLatestFlags ==
    [][\A req \in BagToSet(requests) : \A reply \in Replies(req) :
          /\ (reply.status = 200 /\ reply.body.valid /\ HandlesPoll("printer", req, reply))
                => printers'[1].state = PrinterStateFromFlags(reply.body.state[1])
          /\ (reply.status = 200 /\ printers # <<>> /\ HandlesPoll("job", req, reply))
                => printers'[1].state = printers[1].state]_vars

\* C4: a poll answered with HTTP 200 and a body that is not valid JSON is
\* handled without an error, and leaves the printer view (state, temperatures,
\* job state, name and times) as it was.
C4_InvalidJsonRetainsView ==
    [][\A req \in BagToSet(requests) : \A reply \in Replies(req) :
          (/\ Dispatch(req) \in {"printer", "job", "files"}
           /\ reply.status = 200
           /\ ~reply.body.valid
           /\ printers # <<>>
           /\ OnRequestFinished(req, reply, FALSE))
          => ~raised' /\ printers' = printers]_vars

\* the edges of the connection-state graph
GraphEdges ==
    {<<"Closed", "Connecting">>, <<"Connecting", "Connected">>,
     <<"Connected", "Error">>, <<"Error", "Connected">>}

\* C6: every change of the connection state is an edge of the graph, or a
\* change to Closed.
C6_TransitionsFollowGraph ==
    [][connectionState' # connectionState
          => \/ <<connectionState, connectionState'>> \in GraphEdges
             \/ connectionState' = "Closed"]_vars

\* every variable of the device, without what describes the last call
DeviceState == <<connVars, viewVars, capVars, flowVars, msgVars>>

C35_ClosedUntilConnect ==
    [][(connectionState = "Closed" /\ ~Connect) => connectionState' = "Closed"]_vars

(***************************************************************************)
(* The device, its user and its server: the upload and print protocol.     *)
(* The server answers every request; the replies are those that steer the  *)
(* protocol.                                                               *)
(***************************************************************************)
UploadReplies(req) ==
    CASE Dispatch(req) = "printer" ->
            {Reply(200, PrinterBody(<<>>, <<{"operational", "ready"}>>))}
      [] Dispatch(req) = "settings" ->
            {Reply(200, SettingsBody(<<FALSE>>, <<"idle">>,
                                     <<Plugins(<<>>, "enabled", "absent")>>))}
      [] Dispatch(req) = "files" -> {Reply(200, FileBody(TRUE)), Reply(200, FileBody(FALSE))}
      [] OTHER -> {}

\* the replies to polls are delivered; those to commands are not followed
InitUpload ==
    DeviceInit /\ followedOps = {"GET"} /\ PluginInit(Dumped(<<>>)) /\ useZeroconf = TRUE

\* settings of the selected machine: print at once, or store only
UploadMachines ==
    {Machine(TRUE, FALSE, FALSE, FALSE, FALSE, ""),
     Machine(FALSE, FALSE, FALSE, FALSE, FALSE, "")}

WriteRequested ==
    \E fileName \in FileNames, machine \in UploadMachines :
        RequestWrite(fileName, machine, FALSE)

AnalysisWaitStopped == \E action \in {"print", "cancel"} : StopWaitingForAnalysis(action)

UploadRequestFinished ==
    \E req \in BagToSet(requests) :
        \E reply \in UploadReplies(req) : OnRequestFinished(req, reply, FALSE)

UploadFinished ==
    \E slot \in UploadSlots, reply \in UploadAnswers : OnUploadFinished(slot, reply)

NextUpload ==
    \/ Connect /\ UNCHANGED pluginVars
    \/ Close /\ UNCHANGED pluginVars
    \/ Update /\ UNCHANGED pluginVars
    \/ WriteRequested /\ UNCHANGED pluginVars
    \/ AnalysisWaitStopped /\ UNCHANGED pluginVars
    \/ CancelSendGcode /\ UNCHANGED pluginVars
    \/ UploadRequestFinished /\ UNCHANGED pluginVars
    \/ UploadFinished /\ UNCHANGED pluginVars

SpecUpload == InitUpload /\ [][NextUpload]_vars

(***************************************************************************)
(* Properties of the upload and print protocol, checked under SpecUpload.  *)
(***************************************************************************)
\* C1: at most one upload POST is in flight at any time.
C1_AtMostOneUploadInFlight == Cardinality(DOMAIN uploads) <= 1

\* the file-information end points that are polled
FileEndPoints == {pollingEndPoints[i] : i \in {j \in DOMAIN pollingEndPoints :
                                                  IsFilesEndPoint(pollingEndPoints[j])}}

\* the step sends the multipart POST of an upload
StartsUpload == Len(sent') = 1 /\ sent'[1].op = "POST multipart"

\* the step handles a file-information reply that reports a finished analysis
HandlesAnalysisDone(endPoint) ==
    OnRequestFinished(Get(endPoint), Reply(200, FileBody(TRUE)), FALSE)

\* C5: with auto-print, no storing on the SD card and a server that requires
\* and supports the analysis: (a) the upload carries no print instruction,
\* (b) when an upload that was started to be printed completes, the device
\* waits for the analysis and polls the file-information end point without
\* sending a command, and (c) a print command for a file whose analysis is
\* awaited is sent only by the handling of the analysis-complete response for
\* that file or by the user's "print now".
C5_PrintsOnlyAfterAnalysis ==
    [][/\ (StartsUpload /\ WaitForAnalysis /\ uploadOptions'.autoPrint)
            => "print" \notin sent'[1].body
       /\ \A slot \in DOMAIN uploads :
            (uploads[slot].print /\ WaitForAnalysis /\ OnUploadFinished(slot, Created))
            => /\ waitingForAnalysis'
               /\ <<"files", uploads[slot].dest, uploads[slot].file>> \in FileEndPoints'
               /\ sent' = <<>>
       /\ \A i \in DOMAIN sent' :
            (sent'[i].op = "POST" /\ "print" \in sent'[i].body
             /\ sent'[i].url \in FileEndPoints)
            => HandlesAnalysisDone(sent'[i].url) \/ StopWaitingForAnalysis("print")]_vars

\* C8: a step that ends an analysis wait (the analysis-complete response, or
\* the user's override) removes one file-information end point and leaves
\* those of other pending waits; an end point is added only by an upload that
\* has to wait for the analysis.
C8_EndPointRemovedExactlyOnce ==
    [][/\ (FileEndPoints' # FileEndPoints /\ ~Close)
            => \/ Cardinality(FileEndPoints \ FileEndPoints') = 1
               \/ \E slot \in DOMAIN uploads :
                     StartsAnalysisWait /\ OnUploadFinished(slot, Created)]_vars


\* the end points that are polled, file-information or not
PolledEndPoints == {pollingEndPoints[i] : i \in DOMAIN pollingEndPoints}

\* C33: in every reachable state the polled end points contain the
\* printer-status and the job-status end point; close(), the completion of
\* an analysis, the user's override and the completion of an upload remove
\* neither.
C33_PrinterAndJobAlwaysPolled ==
    <<"printer">> \in PolledEndPoints /\ <<"job">> \in PolledEndPoints

\* close() has ended an analysis wait: the file-information end point is
\* gone, the two status end points are left
C33_ClosedWhileAwaitingAnalysis ==
    /\ closeCalls = 1
    /\ gcodeAnalysisRequiresWait /\ gcodeAnalysisSupported
    /\ ~waitingForAnalysis
    /\ pollingEndPoints = << <<"printer">>, <<"job">> >>
    /\ \E req \in BagToSet(requests) : IsFilesEndPoint(req.url)


\* C38: whenever the connection state is Closed, the device waits neither
\* for the analysis nor for the printer and polls no file-information end
\* point, also after an upload that was in flight when close() was called
\* has completed.
C38_ClosedDeviceWaitsForNothing ==
    connectionState = "Closed"
    => ~waitingForAnalysis /\ ~waitingForPrinter /\ FileEndPoints = {}


(***************************************************************************)
(* The plugin, the user and the discovery: the registry of instances, the  *)
(* selection of the active machine and the store of manual instances.      *)
(***************************************************************************)
\* names of instances
InstanceNames == {"X", "Y"}

\* octoprint_id of the machines that can be selected: an instance, or none
MachineIds == InstanceNames \cup {"None"}

\* address, port, path, useHttps, userName and password of a manual instance
ManualProperties ==
    {[address |-> address, port |-> 80, path |-> "/", useHttps |-> FALSE,
      userName |-> "u", password |-> "p"] : address \in {"1.2.3.4", "5.6.7.8"}}

\* values of the preference when the plugin is created
StoredPreferences == {Dumped(<<>>), NotAnObject}

InitPlugin ==
    /\ DeviceInit
    /\ followedOps = {}
    /\ \E preference \in StoredPreferences : PluginInit(preference)
    /\ useZeroconf = TRUE

\* addManualInstance(name, address, port, path, useHttps, userName, password)
AddManualInstance(name, properties) ==
    /\ manualInstances' = WithManualInstance(manualInstances, name, properties)
    /\ manualInstancesPreference' = Dumped(manualInstances')
    /\ instances' = AddedInstance(WithoutInstance(instances, name), name, TRUE)
    /\ dropped' = {Removed(instance) : instance \in InstancesAt(instances, {name})}
    /\ serviceRemoved' = "None"
    /\ lastManualAdd' = <<[name |-> name, before |-> manualInstancesPreference,
                           removed |-> FALSE]>>
    /\ UNCHANGED <<octoprintId, discoveryVars, deviceVars, actionVars, serverVars, gcodeVars>>

\* removeManualInstance(name)
RemoveManualInstance(name) ==
    /\ instances' = WithoutInstance(instances, name)
    /\ dropped' = {Removed(instance) : instance \in InstancesAt(instances, {name})}
    /\ IF name \in Names(manualInstances)
       THEN /\ manualInstances' = WithoutManualInstance(manualInstances, name)
            /\ manualInstancesPreference' = Dumped(manualInstances')
       ELSE UNCHANGED <<manualInstances, manualInstancesPreference>>
    /\ serviceRemoved' = "None"
    /\ lastManualAdd' =
          IF lastManualAdd # <<>> /\ lastManualAdd[1].name = name
             /\ ~lastManualAdd[1].removed
          THEN <<[lastManualAdd[1] EXCEPT !.removed = TRUE]>>
          ELSE <<>>
    /\ UNCHANGED <<octoprintId, discoveryVars, deviceVars, actionVars, serverVars, gcodeVars>>

\* addInstance(name, ...), for an instance that the discovery has found
AddInstance(name) ==
    /\ instances' = AddedInstance(instances, name, FALSE)
    /\ dropped' = IF octoprintId = NoStack THEN {}
                  ELSE {Left(instance) : instance \in InstancesAt(instances, {name})}
    /\ serviceRemoved' = "None"
    /\ lastManualAdd' = <<>>
    /\ UNCHANGED <<octoprintId, manualInstances, manualInstancesPreference,
                   discoveryVars, deviceVars, actionVars, serverVars, gcodeVars>>

\* removeInstance(name), for an instance that the discovery has lost
RemoveInstance(name) ==
    /\ name \in DOMAIN instances
    /\ instances' = WithoutInstance(instances, name)
    /\ dropped' = {Removed(instances[name])}
    /\ serviceRemoved' = "None"
    /\ lastManualAdd' = <<>>
    /\ UNCHANGED <<octoprintId, manualInstances, manualInstancesPreference,
                   discoveryVars, deviceVars, actionVars, serverVars, gcodeVars>>

\* reCheckConnections(), called when the active machine has become one with
\* the given octoprint_id
ReCheckConnections(id) ==
    /\ octoprintId' = id
    /\ instances' = IF id = NoStack THEN instances ELSE ReChecked(instances, id)
    /\ dropped' = {}
    /\ serviceRemoved' = "None"
    /\ lastManualAdd' = <<>>
    /\ UNCHANGED <<manualInstances, manualInstancesPreference, discoveryVars, deviceVars, actionVars, serverVars, gcodeVars>>

\* a request of an instance times out
InstanceTimedOut(key) ==
    /\ key \in DOMAIN instances
    /\ instances[key].requested
    /\ instances' = [instances EXCEPT ![key] = InstanceTimeout(instances[key])]
    /\ dropped' = {}
    /\ serviceRemoved' = "None"
    /\ lastManualAdd' = <<>>
    /\ UNCHANGED <<octoprintId, manualInstances, manualInstancesPreference,
                   discoveryVars, deviceVars, actionVars, serverVars, gcodeVars>>

\* a printer status arrives at an instance
InstanceAnswered(key) ==
    /\ key \in DOMAIN instances
    /\ instances[key].requested
    /\ instances' = [instances EXCEPT ![key] = InstanceStatus(instances[key])]
    /\ dropped' = {}
    /\ serviceRemoved' = "None"
    /\ lastManualAdd' = <<>>
    /\ UNCHANGED <<octoprintId, manualInstances, manualInstancesPreference,
                   discoveryVars, deviceVars, actionVars, serverVars, gcodeVars>>

ManualInstanceAdded ==
    \E name \in InstanceNames, properties \in ManualProperties :
        AddManualInstance(name, properties)

ManualInstanceRemoved == \E name \in InstanceNames : RemoveManualInstance(name)

InstanceDiscovered == \E name \in InstanceNames : AddInstance(name)

InstanceLost == \E name \in InstanceNames : RemoveInstance(name)

MachineSelected == \E id \in MachineIds \cup {NoStack} : ReCheckConnections(id)

RequestTimedOut == \E key \in InstanceNames : InstanceTimedOut(key)

StatusArrived == \E key \in InstanceNames : InstanceAnswered(key)

NextPlugin ==
    \/ ManualInstanceAdded
    \/ ManualInstanceRemoved
    \/ InstanceDiscovered
    \/ InstanceLost
    \/ MachineSelected
    \/ RequestTimedOut
    \/ StatusArrived

SpecPlugin == InitPlugin /\ [][NextPlugin]_vars

(***************************************************************************)
(* Properties of the registry and of the store, checked under SpecPlugin.  *)
(***************************************************************************)
\* C7: after reCheckConnections() every instance whose key is not the
\* octoprint_id of the active machine is Closed and its poll timer is stopped,
\* whatever state it was in.
C7_OthersClosedAfterReCheck ==
    [][\A id \in MachineIds :
          ReCheckConnections(id)
          => \A key \in DOMAIN instances' \ {id} :
                /\ instances'[key].connectionState = "Closed"
                /\ ~instances'[key].updateTimerActive]_vars

\* C10 (as stated): whatever the store holds, addManualInstance(X, ...)
\* followed by removeManualInstance(X) leaves the preference as it was before
\* the add.
C10_AddThenRemoveRestoresStore ==
    (lastManualAdd # <<>> /\ lastManualAdd[1].removed)
    => manualInstancesPreference = lastManualAdd[1].before

\* the preference held the text of an object without the name, before the add
AddedNew ==
    /\ lastManualAdd # <<>>
    /\ lastManualAdd[1].before.object
    /\ lastManualAdd[1].name \notin Names(lastManualAdd[1].before.entries)

\* C10 (amended): when the preference holds the text of an object, as the
\* plugin writes it, and X is not a name in it, addManualInstance(X, ...)
\* followed by removeManualInstance(X) leaves the preference as it was before
\* the add.
C10_AddNewThenRemoveRestoresStore ==
    (AddedNew /\ lastManualAdd[1].removed)
    => manualInstancesPreference = lastManualAdd[1].before

\* a new name was added to a store that held another one, and removed again
C10_AddedNewAndRemoved ==
    /\ AddedNew
    /\ lastManualAdd[1].removed
    /\ lastManualAdd[1].before.entries # <<>>


\* C13: after addInstance() for a key that is in the registry, the registry
\* holds the new device under the key and the device it replaced is neither
\* connected nor polling.
C13_ReplacedInstanceIsStopped ==
    [][\A name \in InstanceNames :
          (name \in DOMAIN instances /\ AddInstance(name))
          => /\ instances'[name] \in {NewInstance(FALSE), InstanceConnect(NewInstance(FALSE))}
             /\ \A device \in dropped' :
                   /\ ~IsConnected(device.connectionState)
                   /\ ~device.updateTimerActive]_vars

\* C14: after removeInstance(id) the id is not in the registry and the device
\* that was removed is Closed with its poll timer stopped, whatever state it
\* was in.
C14_RemovedInstanceIsClosed ==
    [][\A name \in InstanceNames :
          RemoveInstance(name)
          => /\ name \notin DOMAIN instances'
             /\ \A device \in dropped' :
                   /\ device.connectionState = "Closed"
                   /\ ~device.updateTimerActive]_vars


(***************************************************************************)
(* The plugin and its discovery: startDiscovery(), the keep-alive timer    *)
(* and the events of the service browser.                                  *)
(***************************************************************************)
\* _instances after addInstance() for every entry of _manual_instances
RECURSIVE AddedAll(_, _)
AddedAll(dict, store) ==
    IF store = <<>> THEN dict
    ELSE AddedAll(AddedInstance(dict, Head(store).name, TRUE), Tail(store))

\* 1 for a resource that the call ends, 0 otherwise
Ended(resource, live) == IF resource = live THEN 1 ELSE 0

\* startDiscovery(): Zeroconf() succeeds or raises, the browser thread lives
\* or not once it is created
DiscoveryStarted(backendStarts, browserStarts) ==
    LET started == useZeroconf /\ backendStarts
    IN  /\ dropped' = {Removed(instances[key]) : key \in DOMAIN instances}
        /\ instances' = AddedAll(<<>>, manualInstances)
        /\ zeroconf' = IF started THEN "open" ELSE "None"
        /\ browser' = IF ~started THEN "None"
                      ELSE IF browserStarts THEN "alive" ELSE "dead"
        /\ keepAliveTimerActive' = (started /\ browserStarts)
        /\ openBackends' = (openBackends - Ended(zeroconf, "open"))
                           + (IF started THEN 1 ELSE 0)
        /\ aliveBrowsers' = (aliveBrowsers - Ended(browser, "alive"))
                            + (IF started /\ browserStarts THEN 1 ELSE 0)
        /\ serviceRemoved' = "None"
        /\ lastManualAdd' = <<>>
        /\ UNCHANGED <<useZeroconf, octoprintId, manualInstances,
                       manualInstancesPreference, deviceVars, actionVars, serverVars, gcodeVars>>

StartDiscovery(backendStarts, browserStarts) ==
    /\ DiscoveryStarted(backendStarts, browserStarts)
    /\ UNCHANGED consecutiveZeroconfRestarts

\* a tick that finds the browser dead restarts the discovery whatever the count
RestartsAlways(restarts) == TRUE

\* a tick that finds the browser dead restarts the discovery below the ceiling
MayRestart(restarts) == restarts < MaxZeroconfRestarts

\* _keepDiscoveryAlive(), on the single shot of the keep-alive timer
KeepDiscoveryAlive(backendStarts, browserStarts) ==
    /\ keepAliveTimerActive
    /\ IF browser # "alive"
       THEN IF MayRestart(consecutiveZeroconfRestarts)
            THEN /\ consecutiveZeroconfRestarts' = consecutiveZeroconfRestarts + 1
                 /\ DiscoveryStarted(backendStarts, browserStarts)
            ELSE /\ zeroconf' = "None"
                 /\ openBackends' = openBackends - Ended(zeroconf, "open")
                 /\ keepAliveTimerActive' = FALSE
                 /\ dropped' = {}
                 /\ serviceRemoved' = "None"
                 /\ lastManualAdd' = <<>>
                 /\ UNCHANGED <<consecutiveZeroconfRestarts, browser, aliveBrowsers,
                                useZeroconf, instances, octoprintId, manualInstances,
                                manualInstancesPreference, deviceVars, actionVars, serverVars, gcodeVars>>
       ELSE /\ consecutiveZeroconfRestarts' = 0
            /\ keepAliveTimerActive' = TRUE
            /\ dropped' = {}
            /\ serviceRemoved' = "None"
            /\ lastManualAdd' = <<>>
            /\ UNCHANGED <<zeroconf, browser, openBackends, aliveBrowsers, useZeroconf,
                           instances, octoprintId, manualInstances,
                           manualInstancesPreference, deviceVars, actionVars, serverVars, gcodeVars>>

\* the thread of the service browser dies
BrowserDied ==
    /\ browser = "alive"
    /\ browser' = "dead"
    /\ aliveBrowsers' = aliveBrowsers - 1
    /\ dropped' = {}
    /\ serviceRemoved' = "None"
    /\ lastManualAdd' = <<>>
    /\ UNCHANGED <<useZeroconf, zeroconf, keepAliveTimerActive,
                   consecutiveZeroconfRestarts, openBackends, instances, octoprintId,
                   manualInstances, manualInstancesPreference, deviceVars, actionVars, serverVars, gcodeVars>>

\* the user changes the preference "octoprint/use_zeroconf"
SetUseZeroconf ==
    /\ useZeroconf' = ~useZeroconf
    /\ dropped' = {}
    /\ serviceRemoved' = "None"
    /\ lastManualAdd' = <<>>
    /\ UNCHANGED <<zeroconf, browser, keepAliveTimerActive, consecutiveZeroconfRestarts,
                   openBackends, aliveBrowsers, instances, octoprintId, manualInstances,
                   manualInstancesPreference, deviceVars, actionVars, serverVars, gcodeVars>>

\* names of services that the browser reports: one that _name_regex matches,
\* "OctoPrint instance (\".*\"\.|on )(.*)\.", and one that it does not match
ServiceNames == {"OctoPrint instance on X.", "Y"}

\* the instance name that _onServiceChanged makes of the name of an added
\* service: groups of the match, or the name itself without a match
InstanceNameOf(service) ==
    IF service = "OctoPrint instance on X." THEN "X" ELSE service

\* _onServiceChanged(..., name, ServiceStateChange.Added), address and port known
ServiceAdded(service) ==
    /\ browser = "alive"
    /\ AddInstance(InstanceNameOf(service))

\* _onServiceChanged(..., name, ServiceStateChange.Removed)
ServiceRemoved(service) ==
    /\ browser = "alive"
    /\ instances' = WithoutInstance(instances, service)
    /\ dropped' = {Removed(instance) : instance \in InstancesAt(instances, {service})}
    /\ serviceRemoved' = service
    /\ lastManualAdd' = <<>>
    /\ UNCHANGED <<octoprintId, manualInstances, manualInstancesPreference,
                   discoveryVars, deviceVars, actionVars, serverVars, gcodeVars>>

\* outcomes of Zeroconf() and of the start of the browser thread
Outcomes == BOOLEAN \X BOOLEAN

InitDiscovery ==
    /\ DeviceInit
    /\ followedOps = {}
    /\ PluginInit(Dumped(<<>>))
    /\ useZeroconf = TRUE

DiscoveryRequested == \E o \in Outcomes : StartDiscovery(o[1], o[2])

KeepAliveTick == \E o \in Outcomes : KeepDiscoveryAlive(o[1], o[2])

ServiceFound == \E service \in ServiceNames : ServiceAdded(service)

ServiceLost == \E service \in ServiceNames : ServiceRemoved(service)

ManualInstanceNamed ==
    \E name \in InstanceNames :
        AddManualInstance(name, CHOOSE properties \in ManualProperties : TRUE)

NextDiscovery ==
    \/ DiscoveryRequested
    \/ KeepAliveTick
    \/ BrowserDied
    \/ SetUseZeroconf
    \/ ServiceFound
    \/ ServiceLost
    \/ ManualInstanceNamed
    \/ ManualInstanceRemoved
    \/ MachineSelected

SpecDiscovery == InitDiscovery /\ [][NextDiscovery]_vars


\* C11: after startDiscovery() the registry holds exactly one new instance for
\* every manually configured instance and nothing else, and at most one
\* discovery backend and one service browser are left alive.
C11_StartDiscoveryRebuildsRegistry ==
    [][\A o \in Outcomes :
          StartDiscovery(o[1], o[2])
          => /\ DOMAIN instances' = Names(manualInstances)
             /\ \A key \in DOMAIN instances' :
                   instances'[key] \in {NewInstance(TRUE), InstanceConnect(NewInstance(TRUE))}
             /\ openBackends' <= 1
             /\ aliveBrowsers' <= 1]_vars


\* C15: after a discovery remove event for a service, the registry holds no
\* instance that a discovery add event for the same service created.
C15_RemovedServiceLeavesNoInstance ==
    serviceRemoved # "None"
    => ~ /\ InstanceNameOf(serviceRemoved) \in DOMAIN instances
         /\ ~instances[InstanceNameOf(serviceRemoved)].manual


\* C12: a keep-alive tick that finds the browser dead restarts the discovery
\* while fewer than 5 restarts were made in a row; the count of restarts in a
\* row never exceeds 5; a tick that finds the browser alive resets it to 0 and
\* restarts the timer; a tick that finds the browser dead after 5 restarts
\* closes the backend, leaves the timer stopped, and leaves the registry and
\* the stored manual instances as they are.
C12_KeepAliveRestartsAreBounded ==
    [][/\ consecutiveZeroconfRestarts' <= MaxZeroconfRestarts
       /\ \A o \in Outcomes :
             KeepDiscoveryAlive(o[1], o[2])
             => IF browser = "alive"
                THEN /\ consecutiveZeroconfRestarts' = 0
                     /\ keepAliveTimerActive'
                     /\ UNCHANGED <<zeroconf, browser, instances>>
                ELSE IF consecutiveZeroconfRestarts < MaxZeroconfRestarts
                THEN /\ consecutiveZeroconfRestarts' = consecutiveZeroconfRestarts + 1
                     /\ (zeroconf' = "open") = (useZeroconf /\ o[1])
                     /\ (browser' = "alive") = (useZeroconf /\ o[1] /\ o[2])
                     /\ keepAliveTimerActive' = (browser' = "alive")
                     /\ openBackends' <= 1
                ELSE /\ consecutiveZeroconfRestarts' = MaxZeroconfRestarts
                     /\ ~keepAliveTimerActive'
                     /\ zeroconf' = "None"
                     /\ browser' # "alive"
                     /\ openBackends' = 0
                     /\ ~raised'
                     /\ UNCHANGED <<instances, manualInstances>>]_vars

\* the discovery was given up after 5 restarts in a row, a manual instance
\* is still in the registry
C12_GaveUpAfterFiveRestarts ==
    /\ consecutiveZeroconfRestarts = MaxZeroconfRestarts
    /\ zeroconf = "None"
    /\ browser = "dead"
    /\ ~keepAliveTimerActive
    /\ manualInstances # <<>>
    /\ DOMAIN instances = Names(manualInstances)


(***************************************************************************)
(* The device with an API key: connect() and getAdditionalData().          *)
(***************************************************************************)
VersionBody(server) == [valid |-> TRUE, server |-> server]

LoginBody(name) == [valid |-> TRUE, name |-> name]

\* versions in the properties of the device: none, or the one of the service
Versions == {"", "1.9.0"}

ApiKeys == {"", "key"}

\* the replies of a server that answers the polls, and what it may answer to
\* the requests of getAdditionalData()
ConnectReplies(req) ==
    CASE Dispatch(req) = "version" ->
            {Reply(200, VersionBody(<<"1.9.0">>)), Reply(200, NoBody), Reply(404, NoBody)}
      [] Dispatch(req) = "post login" ->
            {Reply(200, LoginBody(<<"user">>)), Reply(200, LoginBody(<<>>)),
             Reply(403, NoBody)}
      [] Dispatch(req) = "printer" -> {Reply(200, NoBody), TimeoutReply}
      [] OTHER -> {Reply(200, NoBody)}

InitConnect ==
    /\ \E version \in Versions : DeviceCreated(version)
    /\ followedOps = {"GET", "POST"}
    /\ PluginInit(Dumped(<<>>))
    /\ useZeroconf = TRUE

ApiKeySet == \E key \in ApiKeys : SetApiKey(key)

ConnectRequestFinished ==
    \E req \in BagToSet(requests) :
        \E reply \in ConnectReplies(req) : OnRequestFinished(req, reply, FALSE)

NextConnect ==
    \/ ApiKeySet /\ UNCHANGED pluginVars
    \/ Connect /\ UNCHANGED pluginVars
    \/ Close /\ UNCHANGED pluginVars
    \/ Update /\ UNCHANGED pluginVars
    \/ ConnectRequestFinished /\ UNCHANGED pluginVars

SpecConnect == InitConnect /\ [][NextConnect]_vars

\* number of times a request occurs in a list of requests
Count(reqs, r) == Cardinality({i \in DOMAIN reqs : reqs[i] = r})

\* C16: connect() sets the state to Connecting, issues one GET per polled end
\* point, leaves the poll timer running and issues exactly one settings
\* request; it issues the version, login and printer-profile requests at most
\* once, and not at all without an API key.
C16_ConnectIssuesFirstRequests ==
    [][Connect
       => /\ connectionState' = "Connecting"
          /\ updateTimerActive'
          /\ \A i \in DOMAIN pollingEndPoints : sent'[i] = Get(pollingEndPoints[i])
          /\ Count(sent', Get(<<"settings">>)) = 1
          /\ \A r \in {Get(<<"version">>), LoginCommand, Get(<<"printerprofiles">>)} :
                /\ Count(sent', r) <= 1
                /\ apiKey = "" => Count(sent', r) = 0]_vars

\* connect() has just issued the first poll, the settings request and, with an
\* API key, the version, login and printer-profile requests
C16_ConnectedWithApiKey ==
    /\ connectionState = "Connecting"
    /\ apiKey # ""
    /\ sent = UpdateRequests(pollingEndPoints)
              \o <<Get(<<"settings">>), Get(<<"version">>), LoginCommand,
                   Get(<<"printerprofiles">>)>>


\* C17: after the handler of a printer-status reply with an HTTP status, the
\* interval of the poll timer is the fast one if the status was 200 and the
\* slow one for any other status.
C17_IntervalFollowsStatus ==
    [][\A req \in BagToSet(requests) :
          \A reply \in Replies(req) :
              (/\ Dispatch(req) = "printer"
               /\ reply.status # 0
               /\ OnRequestFinished(req, reply, FALSE))
              => updateInterval' = IF reply.status = 200 THEN UpdateFastInterval
                                   ELSE UpdateSlowInterval]_vars


\* C18: a printer-status reply with status 409 moves a Connecting device to
\* Connected; a printer-status reply with any status other than 200 leaves the
\* printer, and its active print job if it has one, in state offline, and any
\* status other than 200 and 409 leaves the connection state as it was.
C18_ErrorStatusForcesOffline ==
    [][\A req \in BagToSet(requests) :
          \A reply \in Replies(req) :
              (/\ Dispatch(req) = "printer"
               /\ reply.status \notin {0, 200}
               /\ OnRequestFinished(req, reply, FALSE))
              => /\ printers'[1].state = "offline"
                 /\ \A i \in DOMAIN printers'[1].activePrintJob :
                       printers'[1].activePrintJob[i].state = "offline"
                 /\ connectionState' =
                       IF reply.status = 409 /\ connectionState = "Connecting"
                       THEN "Connected" ELSE connectionState]_vars


(***************************************************************************)
(* The device, its user and its server: a print job for a printer that is  *)
(* offline and that OctoPrint can switch on or connect.                    *)
(***************************************************************************)
\* the printer is offline or ready; the job is idle or printing; the settings
\* list one power plug
WaitReplies(req) ==
    CASE Dispatch(req) = "printer" ->
            {Reply(409, NoBody), Reply(200, PrinterBody(<<>>, <<{"operational", "ready"}>>))}
      [] Dispatch(req) = "job" ->
            {Reply(200, JobBody(<<"Operational">>, <<Progress(0, JsonNull, 0)>>,
                                <<"a.gcode">>)),
             Reply(200, JobBody(<<"Offline">>, <<Progress(0, JsonNull, 0)>>, <<"a.gcode">>))}
      [] Dispatch(req) = "settings" ->
            {Reply(200, SettingsBody(<<FALSE>>, <<"never">>,
                                     <<Plugins(<<"psu">>, "absent", "absent")>>))}
      [] OTHER -> {}

\* machines with power control (first plug, or a plug that is not there), with
\* auto-connect, and with auto-connect for jobs that are stored only
WaitMachines ==
    {Machine(TRUE, FALSE, FALSE, TRUE, FALSE, ""),
     Machine(TRUE, FALSE, FALSE, TRUE, FALSE, "removed plug"),
     Machine(TRUE, FALSE, FALSE, FALSE, TRUE, ""),
     Machine(FALSE, FALSE, FALSE, FALSE, TRUE, "")}

InitWait ==
    DeviceInit /\ followedOps = {"GET"} /\ PluginInit(Dumped(<<>>)) /\ useZeroconf = TRUE

PrintRequested == \E machine \in WaitMachines : RequestWrite("a", machine, FALSE)

PrinterWaitStopped == \E action \in {"queue", "cancel"} : StopWaitingForPrinter(action, FALSE)

WaitRequestFinished ==
    \E req \in BagToSet(requests) :
        \E reply \in WaitReplies(req) : OnRequestFinished(req, reply, FALSE)

UploadAnswered == \E slot \in UploadSlots : OnUploadFinished(slot, Created)

NextWait ==
    \/ Connect /\ UNCHANGED pluginVars
    \/ Close /\ UNCHANGED pluginVars
    \/ PrintRequested /\ UNCHANGED pluginVars
    \/ PrinterWaitStopped /\ UNCHANGED pluginVars
    \/ WaitRequestFinished /\ UNCHANGED pluginVars
    \/ UploadAnswered /\ UNCHANGED pluginVars

SpecWait == InitWait /\ [][NextWait]_vars


\* the step is requestWrite() for a machine that can switch on or connect its
\* printer, called while the printer is offline
ProceedsOffline(machine) ==
    /\ printers # <<>>
    /\ printers[1].state = "offline"
    /\ machine.powerControl \/ machine.autoConnect
    /\ RequestWrite("a", machine, FALSE)

\* the step handles a job-status reply that leaves the printer idle
ReportsIdle(req, reply) ==
    /\ Dispatch(req) = "job"
    /\ OnRequestFinished(req, reply, FALSE)
    /\ ~raised'
    /\ printers'[1].state = "idle"

\* C19: when the upload flow proceeds while the printer is offline and power
\* control or auto-connect is configured, the step sends the power-on or the
\* connect command, starts to wait for the printer and uploads nothing; the
\* job-status reply that then reports the printer idle starts the upload, once,
\* and ends the wait.
C19_OfflineFlowWaitsForPrinter ==
    [][/\ \A machine \in WaitMachines :
             ProceedsOffline(machine)
             => /\ waitingForPrinter'
                /\ Len(sent') = 1
                /\ sent'[1] = IF machine.powerControl
                              THEN PowerOnCommand(PowerPlug(machine))
                              ELSE ConnectCommand
                /\ uploads' = uploads
       /\ \A req \in BagToSet(requests) :
             \A reply \in WaitReplies(req) :
                 (waitingForPrinter /\ ReportsIdle(req, reply))
                 => /\ StartsUpload
                    /\ Cardinality(DOMAIN uploads') = Cardinality(DOMAIN uploads) + 1
                    /\ ~waitingForPrinter']_vars


\* C37: when proceedRequestWrite() runs for a job to print at once while the
\* printer is offline, it starts no upload with the print field: the device
\* starts to wait for the printer, or shows the error that offers to queue
\* the job, also when power control is enabled and the power plug is not
\* available.
C37_NoPrintUploadWhileOffline ==
    [][\A machine \in WaitMachines :
          (/\ printers # <<>>
           /\ printers[1].state = "offline"
           /\ machine.autoPrint
           /\ RequestWrite("a", machine, FALSE))
          => /\ ~(StartsUpload /\ "print" \in sent'[1].body)
             /\ waitingForPrinter' \/ errorMessage' = "queue"]_vars


\* C20: 'cancel' on the waiting message ends the wait for the printer and
\* uploads nothing; 'queue' ends the wait and uploads the job once, as a forced
\* queue that is not printed; a job-status reply handled while the device does
\* not wait for the printer starts no upload, whatever state it reports; the
\* wait begins again only with a new call of requestWrite().
C20_StoppedWaitStartsNoUpload ==
    [][/\ StopWaitingForPrinter("cancel", FALSE)
          => /\ ~waitingForPrinter'
             /\ sent' = <<>>
             /\ uploads' = uploads
       /\ StopWaitingForPrinter("queue", FALSE)
          => /\ ~waitingForPrinter'
             /\ forcedQueue'
             /\ StartsUpload
             /\ Cardinality(DOMAIN uploads') = Cardinality(DOMAIN uploads) + 1
             /\ \A slot \in DOMAIN uploads' \ DOMAIN uploads : ~uploads'[slot].print
       /\ \A req \in BagToSet(requests) :
             \A reply \in WaitReplies(req) :
                 (~waitingForPrinter /\ OnRequestFinished(req, reply, FALSE))
                 => /\ sent' = <<>>
                    /\ uploads' = uploads
                    /\ ~waitingForPrinter'
       /\ (~waitingForPrinter /\ waitingForPrinter')
          => \E machine \in WaitMachines : RequestWrite("a", machine, FALSE)]_vars

\* the wait for the printer was ended with 'queue': the job is uploaded as a
\* forced queue and the device no longer waits
C20_QueuedInsteadOfWaiting ==
    /\ forcedQueue
    /\ ~waitingForPrinter
    /\ waitingMessage = "None"
    /\ Len(sent) = 1
    /\ sent[1].op = "POST multipart"
    /\ \E slot \in DOMAIN uploads : ~uploads[slot].print


(***************************************************************************)
(* The device, its user and its server: print jobs for a printer that is   *)
(* busy.  The server extracts the G-code of the .ufp files it receives, so  *)
(* that a file is selected and printed by a command after its upload.      *)
(***************************************************************************)
\* the printer prints or is ready; the settings report the UFP plugin
BusyReplies(req) ==
    CASE Dispatch(req) = "printer" ->
            {Reply(200, PrinterBody(<<>>, <<{"operational", "printing"}>>)),
             Reply(200, PrinterBody(<<>>, <<{"operational", "ready"}>>))}
      [] Dispatch(req) = "settings" ->
            {Reply(200, SettingsBody(<<FALSE>>, <<"never">>,
                                     <<Plugins(<<>>, "absent", "new")>>))}
      [] OTHER -> {}

\* machines that print at once, that select the stored file, that store only
BusyMachines ==
    {Machine(TRUE, FALSE, FALSE, FALSE, FALSE, ""),
     Machine(FALSE, TRUE, FALSE, FALSE, FALSE, ""),
     Machine(FALSE, FALSE, FALSE, FALSE, FALSE, "")}

InitBusy ==
    DeviceInit /\ followedOps = {"GET"} /\ PluginInit(Dumped(<<>>)) /\ useZeroconf = TRUE

JobRequested == \E machine \in BusyMachines : RequestWrite("a", machine, FALSE)

JobQueued == QueuePrintJob(FALSE)

BusyRequestFinished ==
    \E req \in BagToSet(requests) :
        \E reply \in BusyReplies(req) : OnRequestFinished(req, reply, FALSE)

NextBusy ==
    \/ Connect /\ UNCHANGED pluginVars
    \/ JobRequested /\ UNCHANGED pluginVars
    \/ JobQueued /\ UNCHANGED pluginVars
    \/ BusyRequestFinished /\ UNCHANGED pluginVars
    \/ UploadAnswered /\ UNCHANGED pluginVars

SpecBusy == InitBusy /\ [][NextBusy]_vars


\* the printer is busy: its state is neither idle nor unknown, and not offline
PrinterBusy == printers # <<>> /\ printers[1].state \notin {"idle", "", "unknown", "offline"}

\* the uploads that the step started
Started == {uploads'[slot] : slot \in DOMAIN uploads' \ DOMAIN uploads}

\* C21: when requestWrite() proceeds while the printer is busy, a job that is
\* not to be printed at once is uploaded without a print field, and a job that
\* is to be printed at once is not uploaded: the user is offered to queue it;
\* the upload that 'queue' starts is a forced queue without select and print
\* fields; no other step starts an upload.
C21_BusyPrinterQueuesOrAsks ==
    [][/\ \A machine \in BusyMachines :
             (PrinterBusy /\ RequestWrite("a", machine, FALSE))
             => IF machine.autoPrint
                THEN /\ sent' = <<>>
                     /\ uploads' = uploads
                     /\ errorMessage' = "queue"
                ELSE /\ StartsUpload
                     /\ "print" \notin sent'[1].body
                     /\ Cardinality(Started) = 1
                     /\ \A upload \in Started : ~upload.print
       /\ QueuePrintJob(FALSE)
          => /\ forcedQueue'
             /\ StartsUpload
             /\ sent'[1].body \cap {"select", "print"} = {}
             /\ Cardinality(Started) = 1
             /\ \A upload \in Started : upload.forced /\ ~upload.print
       /\ StartsUpload
          => \/ QueuePrintJob(FALSE)
             \/ \E machine \in BusyMachines :
                   /\ ~(PrinterBusy /\ machine.autoPrint)
                   /\ RequestWrite("a", machine, FALSE)]_vars

\* the job that was refused for the busy printer was queued by the user
C21_QueuedForBusyPrinter ==
    /\ PrinterBusy
    /\ uploadOptions.autoPrint
    /\ forcedQueue
    /\ errorMessage = "None"
    /\ Len(sent) = 1
    /\ sent[1].op = "POST multipart"


\* C22: no print instruction is sent for a file that was uploaded as a forced
\* queue: the upload has no print field, and the handler of its completion
\* sends no command with print.
C22_ForcedQueueNeverPrints ==
    [][/\ \A upload \in Started : upload.forced => "print" \notin sent'[1].body
       /\ \A slot \in DOMAIN uploads :
             (uploads[slot].forced /\ OnUploadFinished(slot, Created))
             => \A i \in DOMAIN sent' : "print" \notin sent'[i].body]_vars


\* C23: cancelling the upload in progress aborts the request of the upload and
\* clears the progress message; the completion of the aborted request sends
\* no command, enters no analysis wait and updates no state of the device.
C23_CancelAbortsUpload ==
    [][CancelSendGcode
       => /\ postGcodeReply \in DOMAIN uploads
          /\ postGcodeReply \notin DOMAIN uploads'
          /\ progressMessage' = "None"
          /\ sent' = <<>>
          /\ requests' = requests
          /\ UNCHANGED <<waitingForAnalysis, waitingMessage, errorMessage,
                         pollingEndPoints, viewVars, connectionState>>]_vars

\* the upload that started last was cancelled; no other one is in flight
C23_UploadCancelled ==
    /\ uploads = <<>>
    /\ postGcodeReply = 0
    /\ selectAndPrintHandledInUpload
    /\ progressMessage = "None"
    /\ uploadOptions.fileName # ""
    /\ sent = <<>>
    /\ ~waitingForAnalysis
    /\ errorMessage = "None"
    /\ raised


\* C24: an upload that completes with an error status (401, 403, 409 or any
\* other status from 400) shows an error message and ends the flow: no
\* command is sent, no analysis wait starts and the poll end points are kept.
C24_UploadErrorIsReported ==
    [][\A slot \in DOMAIN uploads : \A reply \in UploadAnswers :
          (reply.status >= 400 /\ OnUploadFinished(slot, reply))
          => /\ errorMessage' = "error"
             /\ ~raised'
             /\ sent' = <<>>
             /\ UNCHANGED <<waitingForAnalysis, pollingEndPoints>>]_vars


(***************************************************************************)
(* DiscoverOctoPrintAction: pairing by application key, the probe for the  *)
(* support of application keys, and the test of an API key.  All requests  *)
(* go through _network_manager; a reply is told from the others by its     *)
(* operation and its URL.  A field that holds a reply which has finished   *)
(* is handled as one that holds None: the code only asks it isRunning().   *)
(***************************************************************************)
\* a request: its operation, what its URL points at, and its X-Api-Key header
ActionRequest(host, op, url, key) ==
    [host |-> host, op |-> op, url |-> url, key |-> key]

\* a reply: its status (0 for none), whether its body is a JSON object with
\* members, and the api_key of the body
ActionReply(status, json, key) == [status |-> status, json |-> json, key |-> key]

\* the id a new request in flight gets
FreeReply(replies) ==
    CHOOSE id \in 1..MaxActionReplies :
        /\ id \notin DOMAIN replies
        /\ \A other \in 1..(id - 1) : other \in DOMAIN replies

HasRoom(replies) == Cardinality(DOMAIN replies) < MaxActionReplies

InFlight(replies, id, request) ==
    [k \in DOMAIN replies \cup {id} |-> IF k = id THEN request ELSE replies[k]]

\* the requests in flight without the given one; 0 stands for no reply
WithoutReply(replies, id) == [k \in DOMAIN replies \ {id} |-> replies[k]]

\* the requests a call aborts with reply.abort(), given the field it reads
AbortedBy(id) == IF id \in DOMAIN actionReplies THEN {actionReplies[id]} ELSE {}

IsSettingsRequest(request) == request.op = "GET" /\ request.url = "api/settings"

IsPairingRequest(request) == request.op = "POST" /\ request.url = "plugin/appkeys/request"

\* a GET whose URL holds "/plugin/appkeys/request": the request URL itself or
\* the Location under it
IsPairingPoll(request) ==
    request.op = "GET" /\ request.url \in {"plugin/appkeys/request", "Location"}

IsProbe(request) == request.op = "GET" /\ request.url = "plugin/appkeys/probe"

\* a dict after dict[key] = value
WithEntry(dict, key, value) ==
    [k \in DOMAIN dict \cup {key} |-> IF k = key THEN value ELSE dict[k]]

\* what is left alone by the calls that do not reach the plugin
RegistryFrame == UNCHANGED <<deviceVars, registryVars, serverVars, gcodeVars>>

\* requestApiKey(instance_id) for an instance of the plugin
RequestApiKey(id) ==
    /\ id \in DOMAIN instances
    /\ HasRoom(actionReplies)
    /\ LET reply == FreeReply(actionReplies)
           request == ActionRequest(id, "POST", "plugin/appkeys/request", "")
       IN /\ appkeyInstanceId' = id
          /\ appkeyRequest' = "plugin/appkeys/request"
          /\ appkeyHost' = id
          /\ actionReplies' = InFlight(actionReplies, reply, request)
          /\ appkeyReply' = reply
          /\ actionCall' = Did(<<request>>, {}, {}, 0, <<>>)
    /\ UNCHANGED <<appkeyPollTimerActive, instanceSupportsAppkeys, settingsVars, keysCache>>
    /\ RegistryFrame

\* cancelApiKeyRequest()
CancelApiKeyRequest ==
    /\ actionReplies' = WithoutReply(actionReplies, appkeyReply)
    /\ appkeyReply' = 0
    /\ appkeyRequest' = "None"
    /\ appkeyHost' = "None"
    /\ appkeyPollTimerActive' = FALSE
    /\ actionCall' = Did(<<>>, AbortedBy(appkeyReply), {}, 0, <<>>)
    /\ UNCHANGED <<appkeyInstanceId, instanceSupportsAppkeys, settingsVars, keysCache>>
    /\ RegistryFrame

\* _pollApiKey() polls while _appkey_request is set
Polls(request) == request # "None"

\* _pollApiKey(), when _appkey_poll_timer times out
PollApiKey ==
    /\ appkeyPollTimerActive
    /\ appkeyPollTimerActive' = FALSE
    /\ IF Polls(appkeyRequest)
       THEN /\ HasRoom(actionReplies)
            /\ LET reply == FreeReply(actionReplies)
                   request == ActionRequest(appkeyHost, "GET", appkeyRequest, "")
               IN /\ actionReplies' = InFlight(actionReplies, reply, request)
                  /\ appkeyReply' = reply
                  /\ actionCall' = Did(<<request>>, {}, {}, 0, <<>>)
       ELSE /\ actionCall' = Did(<<>>, {}, {}, 0, <<>>)
            /\ UNCHANGED <<actionReplies, appkeyReply>>
    /\ UNCHANGED <<appkeyRequest, appkeyHost, appkeyInstanceId, instanceSupportsAppkeys,
                   settingsVars, keysCache>>
    /\ RegistryFrame

\* probeAppKeySupport(instance_id) for an instance of the plugin
ProbeAppKeySupport(id) ==
    /\ id \in DOMAIN instances
    /\ HasRoom(actionReplies)
    /\ instanceSupportsAppkeys' = FALSE
    /\ LET reply == FreeReply(actionReplies)
           request == ActionRequest(id, "GET", "plugin/appkeys/probe", "")
       IN /\ actionReplies' = InFlight(actionReplies, reply, request)
          /\ appkeyReply' = reply
          /\ actionCall' = Did(<<request>>, {}, {"appKeysSupportedChanged"}, 0,
                               <<"getAdditionalData">>)
    /\ UNCHANGED <<appkeyRequest, appkeyHost, appkeyInstanceId, appkeyPollTimerActive,
                   settingsVars, keysCache>>
    /\ RegistryFrame

\* _instance_in_error after _onRequestFailed(reply) for each of the requests
InErrorAfterFailed(failed, inError) ==
    IF \E request \in failed : IsSettingsRequest(request) THEN TRUE ELSE inError

\* testApiKey(instance_id, api_key) for an instance of the plugin; the request
\* it aborts finishes without a status, which is handled at once
TestApiKey(id, key) ==
    /\ id \in DOMAIN instances
    /\ instanceResponded' = FALSE
    /\ instanceApiKeyAccepted' = FALSE
    /\ instanceInError' = InErrorAfterFailed(AbortedBy(settingsReply), instanceInError)
    /\ LET running == WithoutReply(actionReplies, settingsReply)
           reply == FreeReply(running)
           request == ActionRequest(id, "GET", "api/settings", key)
       IN IF key # ""
          THEN /\ HasRoom(running)
               /\ actionReplies' = InFlight(running, reply, request)
               /\ settingsReply' = reply
               /\ settingsReplyTimeout' = TRUE
               /\ settingsInstance' = id
               /\ actionCall' = Did(<<request>>, AbortedBy(settingsReply),
                                    {"selectedInstanceSettingsChanged"}, 0, <<>>)
          ELSE /\ actionReplies' = running
               /\ settingsReply' = 0
               /\ settingsReplyTimeout' = FALSE
               /\ actionCall' = Did(<<>>, AbortedBy(settingsReply),
                                    {"selectedInstanceSettingsChanged"}, 0, <<>>)
               /\ UNCHANGED settingsInstance
    /\ UNCHANGED <<appkeyVars, keysCache, instanceApiKeys>>
    /\ RegistryFrame

\* NetworkReplyTimeout._onTimeout() for _settings_reply_timeout
SettingsReplyTimedOut ==
    /\ settingsReplyTimeout
    /\ settingsReplyTimeout' = FALSE
    /\ actionReplies' = WithoutReply(actionReplies, settingsReply)
    /\ settingsReply' = 0
    /\ instanceInError' = InErrorAfterFailed(AbortedBy(settingsReply), instanceInError)
    /\ actionCall' = Did(<<>>, AbortedBy(settingsReply),
                         IF AbortedBy(settingsReply) = {} THEN {}
                         ELSE {"selectedInstanceSettingsChanged"}, 0, <<>>)
    /\ UNCHANGED <<appkeyVars, settingsInstance, instanceResponded,
                   instanceApiKeyAccepted, instanceApiKeys, keysCache>>
    /\ RegistryFrame


\* the statuses of the reply to the pairing request that start the poll
StartsPoll(status) == status \in {201, 202}

\* _onRequestFinished(reply): the reply to the POST of requestApiKey
PairingReply(request, reply) ==
    /\ IF StartsPoll(reply.status)
       THEN /\ actionCall' = Did(<<>>, {}, {}, 1, <<>>)
            /\ IF appkeyRequest = "None"
               THEN UNCHANGED <<appkeyRequest, appkeyHost, appkeyPollTimerActive>>
               ELSE /\ appkeyRequest' = "Location"
                    /\ appkeyHost' = request.host
                    /\ appkeyPollTimerActive' = TRUE
       ELSE /\ actionCall' = Did(<<>>, {}, {}, 0, <<>>)
            /\ appkeyRequest' = "None"
            /\ appkeyHost' = "None"
            /\ UNCHANGED appkeyPollTimerActive
    /\ UNCHANGED <<appkeyInstanceId, instanceSupportsAppkeys, settingsInstance,
                   settingsReplyTimeout, instanceResponded, instanceInError,
                   instanceApiKeyAccepted, instanceApiKeys, keysCache>>
    /\ RegistryFrame

\* the poll goes on after every reply
PollsOnAlways(status) == TRUE

\* the status of the reply to a poll after which the poll goes on
PollsOn(status) == status = 202

\* _onRequestFinished(reply): the reply to a GET of _pollApiKey
PollReply(reply) ==
    /\ appkeyPollTimerActive' = (PollsOn(reply.status) \/ appkeyPollTimerActive)
    /\ appkeyRequest' = IF PollsOn(reply.status) THEN appkeyRequest ELSE "None"
    /\ appkeyHost' = IF PollsOn(reply.status) THEN appkeyHost ELSE "None"
    /\ IF reply.status = 200 /\ reply.json
       THEN /\ keysCache' = WithEntry(keysCache, appkeyInstanceId, reply.key)
            /\ actionCall' = Did(<<>>, {}, {"appKeyReceived"}, 0, <<>>)
       ELSE /\ actionCall' = Did(<<>>, {}, {}, 0, <<>>)
            /\ UNCHANGED keysCache
    /\ UNCHANGED <<appkeyInstanceId, instanceSupportsAppkeys, settingsInstance,
                   settingsReplyTimeout, instanceResponded, instanceInError,
                   instanceApiKeyAccepted, instanceApiKeys>>
    /\ RegistryFrame

\* _instance_supports_appkeys after the reply to the probe
SupportsAppkeys(status) == status = 204

\* _onRequestFinished(reply): the reply to the GET of probeAppKeySupport
ProbeReply(reply) ==
    /\ instanceSupportsAppkeys' = SupportsAppkeys(reply.status)
    /\ actionCall' = Did(<<>>, {}, {"appKeysSupportedChanged"}, 0, <<>>)
    /\ UNCHANGED <<appkeyRequest, appkeyHost, appkeyInstanceId, appkeyPollTimerActive,
                   settingsInstance, settingsReplyTimeout, instanceResponded,
                   instanceInError, instanceApiKeyAccepted, instanceApiKeys, keysCache>>
    /\ RegistryFrame

\* the instance is in error after every reply but 200
InErrorUnlessAccepted(status) == status # 200

\* _instance_in_error after the reply to the settings request
InErrorAfterSettings(status) == status \in {502, 503}

\* _instance_api_key_accepted after the reply to the settings request
AcceptedAfterSettings(status, accepted) ==
    IF status = 200 THEN TRUE
    ELSE IF status \in {401, 502, 503} THEN FALSE
    ELSE accepted

\* _onRequestFinished(reply): the reply to the GET of testApiKey with the key
\* of its request; setApiKey(api_key) of the action when the instance is the
\* one of the active machine
SettingsTestReply(request, reply) ==
    /\ instanceInError' = InErrorAfterSettings(reply.status)
    /\ instanceApiKeyAccepted' = AcceptedAfterSettings(reply.status, instanceApiKeyAccepted)
    /\ instanceResponded' = TRUE
    /\ IF reply.status = 200
       THEN /\ settingsInstance' = "None"
            /\ IF settingsInstance # "None"
               THEN /\ instanceApiKeys' =
                          WithEntry(instanceApiKeys, settingsInstance, request.key)
                    /\ actionCall' =
                          Did(<<>>, {}, {"selectedInstanceSettingsChanged"}, 0,
                              <<"setApiKey", "resetOctoPrintUserName",
                                "getAdditionalData", "parseSettingsData">>)
                    /\ IF settingsInstance = octoprintId
                       THEN /\ keysCache' = WithEntry(keysCache, octoprintId, request.key)
                            /\ instances' = ReChecked(instances, octoprintId)
                            /\ dropped' = {}
                            /\ serviceRemoved' = "None"
                            /\ lastManualAdd' = <<>>
                       ELSE UNCHANGED <<keysCache, instances, dropped, serviceRemoved,
                                        lastManualAdd>>
               ELSE /\ actionCall' =
                          Did(<<>>, {}, {"selectedInstanceSettingsChanged"}, 0, <<>>)
                    /\ UNCHANGED <<instanceApiKeys, keysCache, instances, dropped,
                                   serviceRemoved, lastManualAdd>>
       ELSE /\ actionCall' = Did(<<>>, {}, {"selectedInstanceSettingsChanged"}, 0, <<>>)
            /\ UNCHANGED <<settingsInstance, instanceApiKeys, keysCache, instances,
                           dropped, serviceRemoved, lastManualAdd>>
    /\ UNCHANGED <<appkeyRequest, appkeyHost, appkeyInstanceId, appkeyPollTimerActive,
                   instanceSupportsAppkeys, settingsReplyTimeout>>
    /\ UNCHANGED <<deviceVars, octoprintId, manualInstances, manualInstancesPreference,
                   discoveryVars, serverVars, gcodeVars>>

\* _onRequestFailed(reply), for a reply without a status
RequestFailed(request) ==
    /\ instanceInError' = InErrorAfterFailed({request}, instanceInError)
    /\ actionCall' = Did(<<>>, {}, IF IsSettingsRequest(request)
                                  THEN {"selectedInstanceSettingsChanged"} ELSE {},
                         0, <<>>)
    /\ UNCHANGED <<appkeyRequest, appkeyHost, appkeyInstanceId, appkeyPollTimerActive,
                   instanceSupportsAppkeys, settingsInstance, settingsReplyTimeout,
                   instanceResponded, instanceApiKeyAccepted, instanceApiKeys, keysCache>>
    /\ RegistryFrame

\* _onRequestFinished(reply) of the action, for the reply to a request in flight
OnActionRequestFinished(id, reply) ==
    /\ id \in DOMAIN actionReplies
    /\ actionReplies' = WithoutReply(actionReplies, id)
    /\ appkeyReply' = IF appkeyReply = id THEN 0 ELSE appkeyReply
    /\ settingsReply' = IF settingsReply = id THEN 0 ELSE settingsReply
    /\ LET request == actionReplies[id]
       IN IF reply.status = 0 THEN RequestFailed(request)
          ELSE IF IsPairingRequest(request) THEN PairingReply(request, reply)
          ELSE IF IsProbe(request) THEN ProbeReply(reply)
          ELSE IF IsPairingPoll(request) THEN PollReply(reply)
          ELSE SettingsTestReply(request, reply)

(***************************************************************************)
(* The machine action with one instance of the plugin, its server and the  *)
(* user.  The calls come in any order; a reply comes for any request in    *)
(* flight.                                                                  *)
(***************************************************************************)
\* replies a server may give to a request of the action
ActionAnswers(request) ==
    IF IsPairingRequest(request)
    THEN {ActionReply(201, TRUE, ""), ActionReply(202, FALSE, ""),
          ActionReply(404, FALSE, ""), ActionReply(500, FALSE, ""),
          ActionReply(0, FALSE, "")}
    ELSE IF IsProbe(request)
    THEN {ActionReply(204, FALSE, ""), ActionReply(404, FALSE, ""),
          ActionReply(0, FALSE, "")}
    ELSE IF IsPairingPoll(request)
    THEN {ActionReply(202, FALSE, ""), ActionReply(200, TRUE, "granted"),
          ActionReply(200, FALSE, ""), ActionReply(404, FALSE, ""),
          ActionReply(500, FALSE, ""), ActionReply(0, FALSE, "")}
    ELSE {ActionReply(200, TRUE, ""), ActionReply(401, FALSE, ""),
          ActionReply(500, FALSE, ""), ActionReply(502, FALSE, ""),
          ActionReply(503, FALSE, ""), ActionReply(0, FALSE, "")}

\* API keys the user types: none, or a key
TypedKeys == {"", "typed"}

InitAction ==
    /\ DeviceInit
    /\ followedOps = {}
    /\ PluginInit(Dumped(<<>>))
    /\ useZeroconf = TRUE

ActionInstanceFound == AddInstance("X")

ActionMachineSelected == ReCheckConnections("X")

ApiKeyRequested == \E id \in DOMAIN instances : RequestApiKey(id)

AppKeySupportProbed == \E id \in DOMAIN instances : ProbeAppKeySupport(id)

ApiKeyTested == \E id \in DOMAIN instances : \E key \in TypedKeys : TestApiKey(id, key)

ActionRequestFinished ==
    \E id \in DOMAIN actionReplies :
        \E reply \in ActionAnswers(actionReplies[id]) : OnActionRequestFinished(id, reply)

NextAction ==
    \/ ActionInstanceFound
    \/ ActionMachineSelected
    \/ ApiKeyRequested
    \/ CancelApiKeyRequest
    \/ PollApiKey
    \/ AppKeySupportProbed
    \/ ApiKeyTested
    \/ SettingsReplyTimedOut
    \/ ActionRequestFinished

SpecAction == InitAction /\ [][NextAction]_vars


(***************************************************************************)
(* Properties of the machine action, checked under SpecAction.             *)
(***************************************************************************)
\* the requests a poll of the pairing request issues
PollRequests(call) == {i \in DOMAIN call.issued : IsPairingPoll(call.issued[i])}

\* the polls of the pairing request that are in flight after a step and were
\* not before it
PolledInStep ==
    {id \in DOMAIN actionReplies' :
        /\ IsPairingPoll(actionReplies'[id])
        /\ id \in DOMAIN actionReplies => actionReplies[id] # actionReplies'[id]}

PairingInFlight(replies) ==
    {id \in DOMAIN replies : IsPairingRequest(replies[id]) \/ IsPairingPoll(replies[id])}

\* C26: cancelApiKeyRequest() aborts the request of the pairing that is in
\* flight and stops the poll timer, and no poll is issued before the next
\* requestApiKey(); with nothing outstanding it changes nothing.
C26_CancelStopsPairing ==
    [][/\ CancelApiKeyRequest
          => /\ PairingInFlight(actionReplies') = {}
             /\ ~appkeyPollTimerActive'
             /\ appkeyRequest' = "None"
             /\ (appkeyReply = 0 /\ appkeyRequest = "None" /\ ~appkeyPollTimerActive)
                => UNCHANGED <<actionReplies, appkeyVars, settingsVars, keysCache>>
       /\ (appkeyRequest = "None" /\ PolledInStep # {})
          => \E id \in DOMAIN instances : RequestApiKey(id)]_vars


\* C27: the reply to the settings request of testApiKey() marks the key
\* accepted for 200; for 401 it marks the key not accepted and the instance
\* not in error; for 502 and 503 it marks the instance in error and the key
\* not accepted.  The instance is never both in error and with its key accepted.
C27_KeyTestTellsErrorFromRejection ==
    [][/\ \A id \in DOMAIN actionReplies : \A reply \in ActionAnswers(actionReplies[id]) :
             (/\ IsSettingsRequest(actionReplies[id])
              /\ OnActionRequestFinished(id, reply))
             => /\ reply.status = 200 => instanceApiKeyAccepted' /\ ~instanceInError'
                /\ reply.status = 401 => ~instanceApiKeyAccepted' /\ ~instanceInError'
                /\ reply.status \in {502, 503}
                   => ~instanceApiKeyAccepted' /\ instanceInError'
                /\ reply.status # 0 => instanceResponded'
       /\ ~(instanceInError' /\ instanceApiKeyAccepted')]_vars

\* the server was down when a key that had been accepted was tested again
C27_ServerDownAfterAcceptedKey ==
    /\ instanceInError
    /\ ~instanceApiKeyAccepted
    /\ instanceResponded
    /\ "X" \in DOMAIN instanceApiKeys
    /\ actionReplies = <<>>


\* the probes for the support of application keys that are in flight
ProbesInFlight(replies) == {id \in DOMAIN replies : IsProbe(replies[id])}

\* C28: after the reply to a probe is handled, appKeysSupported is true
\* exactly when the status was 204; from the start of a probe until its reply
\* arrives, appKeysSupported is false.
C28_AppKeysSupportedFollowsProbe ==
    [][/\ \A id \in DOMAIN actionReplies : \A reply \in ActionAnswers(actionReplies[id]) :
             (/\ IsProbe(actionReplies[id])
              /\ reply.status # 0
              /\ OnActionRequestFinished(id, reply))
             => (instanceSupportsAppkeys' <=> reply.status = 204)
       /\ ProbesInFlight(actionReplies') # {} => ~instanceSupportsAppkeys']_vars


(***************************************************************************)
(* The device and a server that answers GET api/printer with every         *)
(* combination of the state flags and every set of tool keys.              *)
(***************************************************************************)
StateFlags ==
    {"error", "closedOrError", "paused", "pausing", "printing", "cancelling",
     "ready", "operational"}

\* payloads of the server: the flags without temperatures, or the
\* temperatures of some tools with the flags of a ready printer
StatusPayloads ==
    {PrinterBody(<<>>, <<flags>>) : flags \in SUBSET StateFlags}
    \cup {PrinterBody(<<Temperatures(tools, Reading(200, 210), <<>>)>>,
                      <<{"operational", "ready"}>>) : tools \in SUBSET (0..(MaxTools - 1))}

InitStatus ==
    DeviceInit /\ followedOps = {"GET"} /\ PluginInit(Dumped(<<>>)) /\ useZeroconf = TRUE

\* the server answers the poll of api/printer
StatusSent ==
    /\ statusPayload.handled
    /\ BagIn(Get(<<"printer">>), requests)
    /\ \E payload \in StatusPayloads :
          statusPayload' = [body |-> payload, handled |-> FALSE]
    /\ UNCHANGED <<deviceVars, registryVars, actionVars, printInstructions, gcodeVars>>

\* the device handles the reply the server has sent
StatusHandled ==
    /\ ~statusPayload.handled
    /\ OnRequestFinished(Get(<<"printer">>), Reply(200, statusPayload.body), FALSE)
    /\ statusPayload' = [statusPayload EXCEPT !.handled = TRUE]
    /\ UNCHANGED <<registryVars, actionVars, printInstructions, gcodeVars>>

NextStatus ==
    \/ Connect /\ UNCHANGED pluginVars
    \/ StatusSent
    \/ StatusHandled

SpecStatus == InitStatus /\ [][NextStatus]_vars

(***************************************************************************)
(* Properties of the printer view, checked under SpecStatus.               *)
(***************************************************************************)
\* the order of the states and the flags that give each of them
StatePriority ==
    <<[flags |-> {"error", "closedOrError"}, state |-> "error"],
      [flags |-> {"paused", "pausing"}, state |-> "paused"],
      [flags |-> {"printing"}, state |-> "printing"],
      [flags |-> {"cancelling"}, state |-> "aborted"],
      [flags |-> {"ready", "operational"}, state |-> "idle"]>>

\* the state of the first entry of the order with a flag that is set
FirstMatch(flags) ==
    LET matches == {i \in DOMAIN StatePriority : StatePriority[i].flags \cap flags # {}}
    IN  IF matches = {} THEN "offline"
        ELSE StatePriority[CHOOSE i \in matches : \A j \in matches : i <= j].state

\* C29: for every combination of the flags, the printer state after the
\* payload is handled is the first match of the order error, paused,
\* printing, aborted, idle, and offline when no flag matches.
C29_StateIsFirstMatch ==
    [][(StatusHandled /\ statusPayload.body.state # <<>>)
       => printers'[1].state = FirstMatch(statusPayload.body.state[1])]_vars

\* a payload with printing and paused was handled: the printer is paused
C29_PausedWhilePrinting ==
    /\ statusPayload.handled
    /\ statusPayload.body.valid
    /\ statusPayload.body.state = <<{"printing", "paused"}>>
    /\ printers # <<>>
    /\ printers[1].state = "paused"

\* the k of a payload with the keys tool0 .. tool(k-1) and without tool(k)
ToolCount(tools) ==
    CHOOSE k \in 0..MaxTools : (\A i \in 0..(k - 1) : i \in tools) /\ k \notin tools

\* no payload with temperatures was handled yet
NoTemperaturesYet == ~numberOfExtrudersSet /\ numberOfExtruders = 1

\* C30: when the first payload with temperatures holds the keys tool0 ..
\* tool(k-1) and not tool(k), with k >= 1, the extruder count becomes k and
\* the printer has k extruders after the payload is handled; later payloads
\* change neither.
C30_ExtruderCountFromFirstPayload ==
    [][/\ (StatusHandled /\ statusPayload.body.temperature # <<>>)
          => LET k == ToolCount(statusPayload.body.temperature[1].tools)
             IN  (NoTemperaturesYet /\ k >= 1)
                 => /\ numberOfExtruders' = k
                    /\ numberOfExtrudersSet'
                    /\ Len(printers'[1].extruders) = k
       /\ numberOfExtrudersSet
          => /\ numberOfExtrudersSet'
             /\ numberOfExtruders' = numberOfExtruders
             /\ Len(printers'[1].extruders) = numberOfExtruders]_vars

\* two tools were counted, and a later payload with one tool was handled
C30_CountKeptAfterFirstPayload ==
    /\ statusPayload.handled
    /\ statusPayload.body.valid
    /\ statusPayload.body.temperature # <<>>
    /\ statusPayload.body.temperature[1].tools = {0}
    /\ numberOfExtrudersSet
    /\ numberOfExtruders = 2
    /\ Len(printers[1].extruders) = 2

(***************************************************************************)
(* The device and a server that answers GET api/job with every combination *)
(* of the progress values and of the estimate of the job.                  *)
(***************************************************************************)
\* a job payload that also holds json_data["job"]["estimatedPrintTime"],
\* a key the handler does not read
JobBodyWithEstimate(state, progress, name, estimate) ==
    [valid |-> TRUE, state |-> state, progress |-> progress, name |-> name,
     estimatedPrintTime |-> estimate]

PrintTimes == {JsonNull, 0, 10}

PrintTimesLeft == {JsonNull, 0, 30}

Completions == {JsonNull, 0, 25, 100}

Estimates == {JsonNull, 600}

JobPayloads ==
    {JobBodyWithEstimate(<<"Printing">>, <<Progress(printTime, left, completion)>>,
                         <<"a.gcode">>, estimate) :
        printTime \in PrintTimes, left \in PrintTimesLeft,
        completion \in Completions, estimate \in Estimates}

InitJob ==
    DeviceInit /\ followedOps = {"GET"} /\ PluginInit(Dumped(<<>>)) /\ useZeroconf = TRUE

\* the first reply to the poll of api/printer creates the printer
PrinterSeen ==
    /\ printers = <<>>
    /\ OnRequestFinished(Get(<<"printer">>),
                         Reply(200, PrinterBody(<<>>, <<{"operational", "printing"}>>)),
                         FALSE)
    /\ UNCHANGED pluginVars

\* the server answers the poll of api/job
JobSent ==
    /\ statusPayload.handled
    /\ printers # <<>>
    /\ BagIn(Get(<<"job">>), requests)
    /\ \E payload \in JobPayloads :
          statusPayload' = [body |-> payload, handled |-> FALSE]
    /\ UNCHANGED <<deviceVars, registryVars, actionVars, printInstructions, gcodeVars>>

\* the device handles the reply the server has sent
JobHandled ==
    /\ ~statusPayload.handled
    /\ OnRequestFinished(Get(<<"job">>), Reply(200, statusPayload.body), FALSE)
    /\ statusPayload' = [statusPayload EXCEPT !.handled = TRUE]
    /\ UNCHANGED <<registryVars, actionVars, printInstructions, gcodeVars>>

NextJob ==
    \/ Connect /\ UNCHANGED pluginVars
    \/ PrinterSeen
    \/ JobSent
    \/ JobHandled

SpecJob == InitJob /\ [][NextJob]_vars

(***************************************************************************)
(* Properties of the print job view, checked under SpecJob.                *)
(***************************************************************************)
\* the total time of the rule: elapsed plus time left, else elapsed over
\* the completed fraction, else the estimate of the job, else zero
EstimatedTotal(body) ==
    LET progress == body.progress[1]
        elapsed == IF NonZero(progress.printTime) THEN progress.printTime ELSE 0
    IN  IF NonZero(progress.printTimeLeft) THEN elapsed + progress.printTimeLeft
        ELSE IF NonZero(progress.completion)
        THEN (elapsed * 100) \div progress.completion
        ELSE IF NonZero(body.estimatedPrintTime) THEN body.estimatedPrintTime
        ELSE 0

\* C31: the total time of the job after a job payload is handled is elapsed
\* plus the time left the server reports; else elapsed divided by the
\* completed fraction when completion is not zero; else the estimate of the
\* job when present; else zero.
C31_TimeTotalFollowsRule ==
    [][JobHandled
       => printers'[1].activePrintJob[1].timeTotal = EstimatedTotal(statusPayload.body)]_vars

(***************************************************************************)
(* The device, its user and a server whose settings reply arrives at any   *)
(* time, also while an upload is in flight, and reports every combination  *)
(* of SD card support, awaited analysis and UFP plugin.                    *)
(***************************************************************************)
\* the analysis as the settings report it: when it runs, and the analyzers
CapsAnalysis == {<<"never", "absent">>, <<"idle", "enabled">>}

CapsSettings ==
    {SettingsBody(<<sdSupport>>, <<analysis[1]>>, <<Plugins(<<>>, analysis[2], ufp)>>) :
        sdSupport \in BOOLEAN, analysis \in CapsAnalysis, ufp \in {"absent", "new"}}

CapsReplies(req) ==
    CASE Dispatch(req) = "printer" ->
            {Reply(200, PrinterBody(<<>>, <<{"operational", "printing"}>>)),
             Reply(200, PrinterBody(<<>>, <<{"operational", "ready"}>>))}
      [] Dispatch(req) = "settings" -> {Reply(200, body) : body \in CapsSettings}
      [] Dispatch(req) = "files" -> {Reply(200, FileBody(TRUE))}
      [] OTHER -> {}

\* machines that print at once, and that select the stored file
CapsMachines ==
    {Machine(TRUE, FALSE, FALSE, FALSE, FALSE, ""),
     Machine(FALSE, TRUE, FALSE, FALSE, FALSE, "")}

InitCaps ==
    DeviceInit /\ followedOps = {"GET"} /\ PluginInit(Dumped(<<>>)) /\ useZeroconf = TRUE

\* the plugin connects the device once
CapsConnect == connectionState = "Closed" /\ Connect

\* the requests of a call that hold a print instruction: an upload with the
\* print field, or a select command with print
PrintsIn(issued) == SelectSeq(issued, LAMBDA r : "print" \in r.body)

\* the server counts the print instructions it receives for an upload, from
\* the start of the upload
ServerCounts ==
    /\ printInstructions' =
          IF StartsUpload THEN Len(PrintsIn(sent'))
          ELSE IF printInstructions + Len(PrintsIn(sent')) < MaxPrintInstructions
          THEN printInstructions + Len(PrintsIn(sent'))
          ELSE MaxPrintInstructions
    /\ UNCHANGED <<registryVars, actionVars, statusPayload, gcodeVars>>

\* no upload is in flight and no wait is pending: the user starts a job only
\* when the job before has ended
NoJobPending == uploads = <<>> /\ ~waitingForAnalysis /\ ~waitingForPrinter

CapsJobRequested ==
    /\ NoJobPending
    /\ \E machine \in CapsMachines : RequestWrite("a", machine, FALSE)

CapsJobQueued == NoJobPending /\ QueuePrintJob(FALSE)

CapsPrintNow == StopWaitingForAnalysis("print")

CapsRequestFinished ==
    \E req \in BagToSet(requests) :
        \E reply \in CapsReplies(req) : OnRequestFinished(req, reply, FALSE)

CapsUploadAnswered == \E slot \in UploadSlots : OnUploadFinished(slot, Created)

NextCaps ==
    \/ CapsConnect /\ ServerCounts
    \/ SetStoreOnSd /\ ServerCounts
    \/ CapsJobRequested /\ ServerCounts
    \/ CapsJobQueued /\ ServerCounts
    \/ CapsPrintNow /\ ServerCounts
    \/ CapsRequestFinished /\ ServerCounts
    \/ CapsUploadAnswered /\ ServerCounts

SpecCaps == InitCaps /\ [][NextCaps]_vars

(***************************************************************************)
(* Properties of the upload under changing settings, checked under         *)
(* SpecCaps.                                                               *)
(***************************************************************************)
\* the file is stored on the SD card of the printer
OnSdCard == storeOnSdSupported /\ storeOnSdSetting

\* the analysis of the uploaded file has to be awaited
AnalysisAwaited == gcodeAnalysisRequiresWait /\ gcodeAnalysisSupported /\ ~OnSdCard

\* the upload started by the step holds the print field only when the flow
\* is not forced to queue and auto-print is enabled
PrintFieldOnlyForAutoPrint ==
    StartsUpload => ("print" \in sent'[1].body => ~forcedQueue' /\ uploadOptions'.autoPrint)

C36_AtMostOnePrintInstruction == printInstructions <= 1

(***************************************************************************)
(* The device, its user and a server that answers every request by its end *)
(* point: jobs are uploaded under the name a, and under the name printer   *)
(* in the folder api, to a server that analyses the files it stores.       *)
(***************************************************************************)
\* the handler of the end point a request was sent to
HandlerOf(req) ==
    IF req.op = "GET"
    THEN CASE req.url[1] \in {"printerprofiles", "printer", "job", "settings", "version",
                              "files"} -> req.url[1]
           [] OTHER -> "none"
    ELSE CASE req.url[1] = "files" -> "post files"
           [] req.url[1] = "job" -> "post job"
           [] Len(req.url) > 1 /\ req.url[1] = "printer" /\ req.url[2] = "command" ->
                 "post command"
           [] req.url[1] = "login" -> "post login"
           [] OTHER -> "none"

\* the answers of the server to the requests for an end point
FilesServerReplies(req) ==
    CASE HandlerOf(req) = "printer" ->
            {Reply(200, PrinterBody(<<>>, <<{"operational", "ready"}>>))}
      [] HandlerOf(req) = "settings" ->
            {Reply(200, SettingsBody(<<FALSE>>, <<"idle">>,
                                     <<Plugins(<<>>, "enabled", "absent")>>))}
      [] HandlerOf(req) = "files" -> {Reply(200, FileBody(TRUE)), Reply(200, FileBody(FALSE))}
      [] OTHER -> {}

FolderFileNames == {"a", "api/printer"}

InitFiles ==
    DeviceInit /\ followedOps = {"GET"} /\ PluginInit(Dumped(<<>>)) /\ useZeroconf = TRUE

FilesJobRequested ==
    \E fileName \in FolderFileNames :
        RequestWrite(fileName, Machine(TRUE, FALSE, FALSE, FALSE, FALSE, ""), FALSE)

FilesRequestFinished ==
    \E req \in BagToSet(requests) :
        \E reply \in FilesServerReplies(req) : OnRequestFinished(req, reply, FALSE)

NextFiles ==
    \/ CapsConnect /\ UNCHANGED pluginVars
    \/ Update /\ UNCHANGED pluginVars
    \/ FilesJobRequested /\ UNCHANGED pluginVars
    \/ CapsPrintNow /\ UNCHANGED pluginVars
    \/ FilesRequestFinished /\ UNCHANGED pluginVars
    \/ CapsUploadAnswered /\ UNCHANGED pluginVars

SpecFiles == InitFiles /\ [][NextFiles]_vars

\* C34: every response is processed by the handler of the end point its
\* request was sent to: the branch that the URL of an outstanding request
\* selects is the handler of its end point; the response to a
\* file-information poll is never processed as a printer-status, job-status,
\* settings or version response.
C34_ReplyReachesHandlerOfItsRequest ==
    \A req \in BagToSet(requests) : Dispatch(req) = HandlerOf(req)



(***************************************************************************)
(* Pairing with two instances of the plugin.  The user asks an AppKey for  *)
(* either instance, at any time; each server answers the requests sent to  *)
(* it, and the key a server grants is the key of that server.              *)
(***************************************************************************)
PairingInstances == {"X", "Y"}

\* the API key the server of an instance grants
GrantedKey(host) == host

\* replies the server of the request's instance may give
PairingAnswers(request) ==
    IF IsPairingRequest(request)
    THEN {ActionReply(201, TRUE, ""), ActionReply(404, FALSE, "")}
    ELSE {ActionReply(202, FALSE, ""), ActionReply(200, TRUE, GrantedKey(request.host)),
          ActionReply(404, FALSE, "")}

InitPairing ==
    /\ DeviceInit
    /\ followedOps = {}
    /\ PluginInit(Dumped(<<>>))
    /\ useZeroconf = TRUE

PairingInstanceFound ==
    \E name \in PairingInstances : name \notin DOMAIN instances /\ AddInstance(name)

PairingRequestFinished ==
    \E id \in DOMAIN actionReplies :
        \E reply \in PairingAnswers(actionReplies[id]) : OnActionRequestFinished(id, reply)

NextPairing ==
    \/ PairingInstanceFound
    \/ ApiKeyRequested
    \/ CancelApiKeyRequest
    \/ PollApiKey
    \/ PairingRequestFinished

SpecPairing == InitPairing /\ [][NextPairing]_vars

\* C39: a key granted by an AppKey poll response is cached under the id of
\* the instance whose pairing request it answers: every key in the cache is
\* the key granted by the server of the instance it is stored under, for
\* every interleaving of requestApiKey calls with their responses.
C39_KeyCachedUnderItsInstance ==
    \A id \in DOMAIN keysCache : keysCache[id] = GrantedKey(id)



(***************************************************************************)
(* G-code commands: sendCommand and the deferred _sendQueuedGcode of the   *)
(* device, and moveHead of its output controller.  A command is its code   *)
(* and, for a move, the arguments the code is formatted with.              *)
(***************************************************************************)
Gcode(code) == [code |-> code, x |-> 0, y |-> 0, z |-> 0, f |-> 0]

\* "G0 X%s Y%s Z%s F%s" % (x, y, z, speed)
G0(x, y, z, speed) == [code |-> "G0", x |-> x, y |-> y, z |-> z, f |-> speed]

\* _sendCommandToApi("printer/command", commands) for a list of commands
CommandsRequest(commands) ==
    Request("POST", <<"printer", "command">>, [commands |-> commands])

\* variables that sendCommand and _sendQueuedGcode leave alone, and the
\* outputs of the call
GcodeFrame ==
    /\ emitted' = 0
    /\ closeCalls' = 0
    /\ raised' = FALSE
    /\ requests' = Issue(requests, sent')
    /\ UNCHANGED <<connectionState, connectionStateBeforeTimeout, updateTimerActive,
                   updateInterval, pollingEndPoints, followedOps, accountVars, viewVars,
                   capVars, flowVars, msgVars, histVars>>
    /\ UNCHANGED <<registryVars, actionVars, serverVars>>

\* sendCommand(command)
SendCommand(command) ==
    /\ Len(submitted) < MaxCommands
    /\ queuedGcodeCommands' = Append(queuedGcodeCommands, command)
    /\ laterCalls' = laterCalls + 1
    /\ submitted' = Append(submitted, command)
    /\ sent' = <<>>
    /\ UNCHANGED batches
    /\ GcodeFrame

\* the distance of a move along an axis that is inverted or not
Directed(distance, inverted) == IF inverted THEN 0 - distance ELSE distance

\* the commands of moveHead(printer, x, y, z, speed), in the order of its
\* sendCommand calls; inverted is the set of the inverted axes
HeadMove(move, speed, inverted) ==
    <<Gcode("G91"),
      G0(Directed(move[1], "x" \in inverted), Directed(move[2], "y" \in inverted),
         Directed(move[3], "z" \in inverted), speed),
      Gcode("G90")>>

\* moveHead(printer, x, y, z, speed): three calls of sendCommand
MoveHead(move, speed, inverted) ==
    /\ Len(submitted) + 3 <= MaxCommands
    /\ queuedGcodeCommands' = queuedGcodeCommands \o HeadMove(move, speed, inverted)
    /\ laterCalls' = laterCalls + 3
    /\ submitted' = submitted \o HeadMove(move, speed, inverted)
    /\ sent' = <<>>
    /\ UNCHANGED batches
    /\ GcodeFrame

\* the queue after a flush that does not empty it
QueueKept(queue) == queue

\* _queued_gcode_commands after _sendQueuedGcode
QueueFlushed(queue) == <<>>

\* _sendQueuedGcode(), when the main loop runs a call that callLater holds
SendQueuedGcode ==
    /\ laterCalls > 0
    /\ laterCalls' = laterCalls - 1
    /\ sent' = IF queuedGcodeCommands # <<>>
               THEN <<CommandsRequest(queuedGcodeCommands)>>
               ELSE <<>>
    /\ queuedGcodeCommands' = QueueFlushed(queuedGcodeCommands)
    /\ batches' = batches \o [i \in 1..Len(sent') |-> sent'[i].body.commands]
    /\ UNCHANGED submitted
    /\ GcodeFrame

\* commands of the monitor page, moves of the jog controls and axes a printer
\* profile may invert
MonitorCommands == {Gcode("G28"), Gcode("M104")}

JogMoves == {<<10, 0, 0>>, <<0, 0 - 1, 0>>}

JogSpeeds == {6000}

InvertedAxes == {{}, {"x"}, {"x", "y", "z"}}

InitGcode ==
    /\ DeviceInit
    /\ followedOps = {}
    /\ PluginInit(Dumped(<<>>))
    /\ useZeroconf = TRUE

CommandSent == \E command \in MonitorCommands : SendCommand(command)

HeadMoved ==
    \E move \in JogMoves : \E speed \in JogSpeeds : \E inverted \in InvertedAxes :
        MoveHead(move, speed, inverted)

NextGcode ==
    \/ Connect /\ UNCHANGED pluginVars
    \/ Close /\ UNCHANGED pluginVars
    \/ CommandSent
    \/ HeadMoved
    \/ SendQueuedGcode

SpecGcode == InitGcode /\ [][NextGcode]_vars

\* the commands of a list of batches, in order
RECURSIVE Flattened(_)
Flattened(list) == IF list = <<>> THEN <<>> ELSE Head(list) \o Flattened(Tail(list))

\* C40: every G-code command passed to sendCommand is sent to the server
\* exactly once and in submission order: the batches sent so far, followed by
\* the queue, are the commands submitted, and a deferred flush is held while
\* commands are queued; a flush sends all the queued commands as one batch
\* and empties the queue, a flush that finds the queue empty sends nothing,
\* and a head move submits G91, the G0 move and G90 in that order.
C40_CommandsSentOnceInOrder ==
    [][/\ Flattened(batches') \o queuedGcodeCommands' = submitted'
       /\ queuedGcodeCommands' # <<>> => laterCalls' > 0
       /\ SendQueuedGcode =>
              /\ queuedGcodeCommands' = <<>>
              /\ queuedGcodeCommands # <<>> =>
                     sent' = <<CommandsRequest(queuedGcodeCommands)>>
              /\ queuedGcodeCommands = <<>> => sent' = <<>>
       /\ HeadMoved =>
              /\ Len(submitted') = Len(submitted) + 3
              /\ submitted'[Len(submitted) + 1].code = "G91"
              /\ submitted'[Len(submitted) + 2].code = "G0"
              /\ submitted'[Len(submitted) + 3].code = "G90"]_vars

\* a head move and a command have gone out as one batch, and a later flush
\* has found the queue empty
C40_HeadMoveSentAsOneBatch ==
    /\ Len(batches) = 1
    /\ Len(batches[1]) = 4
    /\ \E i \in 1..2 : /\ batches[1][i].code = "G91"
                       /\ batches[1][i + 1].code = "G0"
                       /\ batches[1][i + 2].code = "G90"
    /\ queuedGcodeCommands = <<>>
    /\ submitted = batches[1]
    /\ laterCalls < 3

====
